---- MODULE Spec2Model ----
(***************************************************************************)
(* Model of rpcdiff (vmkteam/rpcdiff): the comparison of two OpenRPC       *)
(* documents, the classification of every difference and the overall      *)
(* criticality of the Diff.                                                *)
(*                                                                         *)
(* Go values are modelled as records [k, t, v]: k is the reflect kind      *)
(* ("nil", "scalar", "struct", "slice"), t the Go type and v the payload.  *)
(* A []string path is a slice header [a, n, c] (backing array, len, cap)   *)
(* over a heap of backing arrays, so that append() shares or reallocates   *)
(* the backing array as the Go runtime does.                               *)
(***************************************************************************)
EXTENDS Integers, Sequences, FiniteSets, TLC

(***************************************************************************)
(* Criticality levels, change types and change objects.                    *)
(***************************************************************************)
Breaking == "BREAKING"
NonBreaking == "NON_BREAKING"
Dangerous == "DANGEROUS"

Added == "ADDED"
Removed == "REMOVED"
Changed == "CHANGED"

OpenRPCVersion == "OPEN_RPC_VERSION"
SchemaInfo == "SCHEMA_INFO"
SchemaServers == "SCHEMA_SERVERS"
Method == "METHOD"
MethodParamStructure == "METHOD_PARAM_STRUCTURE"
MethodParam == "METHOD_PARAM"
MethodParamType == "METHOD_PARAM_TYPE"
MethodResult == "METHOD_RESULT"
MethodResultType == "METHOD_RESULT_TYPE"
MethodError == "METHOD_ERROR"
ComponentsSchema == "COMPONENTS_SCHEMA"
ComponentsSchemaType == "COMPONENTS_SCHEMA_TYPE"
ComponentsSchemaProperty == "COMPONENTS_SCHEMA_PROPERTY"
ComponentsSchemaPropertyType == "COMPONENTS_SCHEMA_PROPERTY_TYPE"
ComponentsDescriptor == "COMPONENTS_DESCRIPTOR"
ComponentsDescriptorType == "COMPONENTS_DESCRIPTOR_TYPE"
Other == "OTHER"

(***************************************************************************)
(* Go values.                                                              *)
(***************************************************************************)
\* the untyped nil of an interface{} argument
NIL == [k |-> "nil", t |-> "", v |-> "nil"]
\* a nil pointer of type t
NilPtr(t) == [k |-> "nil", t |-> t, v |-> "nil"]
Scalar(t, x) == [k |-> "scalar", t |-> t, v |-> x]
Str(x) == Scalar("string", x)
Bool(b) == Scalar("bool", b)
Struct(t, r) == [k |-> "struct", t |-> t, v |-> r]
Slice(t, s) == [k |-> "slice", t |-> t, v |-> s]

\* reflect.DeepEqual on two interface values: the dynamic types must agree
DeepEqual(x, y) == x.k = y.k /\ x.t = y.t /\ x = y

isNil(x) == x.k = "nil"
isStruct(x) == x.k = "struct"
isSlice(x) == x.k = "slice"
isMap(x) == x.k = "map"
sameType(x, y) == x.t = y.t

detectChangeType(old, new) ==
    IF isNil(old) THEN Added
    ELSE IF isNil(new) THEN Removed
    ELSE Changed

(***************************************************************************)
(* Paths: slices of strings over a heap of backing arrays.                 *)
(***************************************************************************)
\* runtime.growslice for one more element of a full slice of small capacity
GrowCap(c) == IF c = 0 THEN 1 ELSE 2 * c

\* a slice literal or make+copy: a fresh backing array, cap = len
NewSlice(hp, s) ==
    [hp |-> Append(hp, s), s |-> [a |-> Len(hp) + 1, n |-> Len(s), c |-> Len(s)]]

\* the elements a slice header shows
PathVal(hp, s) == SubSeq(hp[s.a], 1, s.n)

\* append(path, x): in place when len < cap, else into a grown copy
AppendPath(hp, s, x) ==
    IF s.n < s.c
    THEN [hp |-> [hp EXCEPT ![s.a] = SubSeq(@, 1, s.n) \o <<x>>
                                      \o SubSeq(@, s.n + 2, Len(@))],
          s |-> [s EXCEPT !.n = s.n + 1]]
    ELSE [hp |-> Append(hp, PathVal(hp, s) \o <<x>>),
          s |-> [a |-> Len(hp) + 1, n |-> s.n + 1, c |-> GrowCap(s.c)]]

last(path) == IF Len(path) > 0 THEN path[Len(path)] ELSE ""

(***************************************************************************)
(* The path patterns, in their declared order. A pattern is kept as the    *)
(* list of its segments (strings.Split(pattern, ".")).                     *)
(***************************************************************************)
objectPaths == <<
    [pattern |-> <<"openrpc">>, object |-> OpenRPCVersion],
    [pattern |-> <<"info", "version">>, object |-> OpenRPCVersion],
    [pattern |-> <<"info">>, object |-> SchemaInfo],
    [pattern |-> <<"servers">>, object |-> SchemaServers],
    [pattern |-> <<"methods", "*", "paramStructure">>, object |-> MethodParamStructure],
    [pattern |-> <<"methods", "*", "params", "*", "schema">>, object |-> MethodParamType],
    [pattern |-> <<"methods", "*", "params", "*", "$ref">>, object |-> MethodParamType],
    [pattern |-> <<"methods", "*", "params">>, object |-> MethodParam],
    [pattern |-> <<"methods", "*", "result", "type">>, object |-> MethodResultType],
    [pattern |-> <<"methods", "*", "result", "$ref">>, object |-> MethodResultType],
    [pattern |-> <<"methods", "*", "result">>, object |-> MethodResult],
    [pattern |-> <<"methods", "*", "errors">>, object |-> MethodError],
    [pattern |-> <<"methods">>, object |-> Method],
    [pattern |-> <<"components", "schemas", "*", "type">>, object |-> ComponentsSchemaType],
    [pattern |-> <<"components", "schemas", "*", "properties", "*", "type">>,
     object |-> ComponentsSchemaPropertyType],
    [pattern |-> <<"components", "schemas", "*", "properties", "*", "schema">>,
     object |-> ComponentsSchemaPropertyType],
    [pattern |-> <<"components", "schemas", "*", "properties", "*", "$ref">>,
     object |-> ComponentsSchemaPropertyType],
    [pattern |-> <<"components", "schemas", "*", "properties">>,
     object |-> ComponentsSchemaProperty],
    [pattern |-> <<"components", "schemas">>, object |-> ComponentsSchema],
    [pattern |-> <<"components", "contentDescriptors", "*", "schema">>,
     object |-> ComponentsDescriptorType],
    [pattern |-> <<"components", "contentDescriptors">>, object |-> ComponentsDescriptor] >>

\* strings.Split(s, sep) of a string given as its characters: the pieces
\* between the separators, empty ones included
RECURSIVE Split(_, _)
Split(s, sep) ==
    IF s = <<>> THEN <<"">>
    ELSE IF Head(s) = sep THEN <<"">> \o Split(Tail(s), sep)
    ELSE <<Head(s) \o Head(Split(Tail(s), sep))>> \o Tail(Split(Tail(s), sep))

\* a path matched only when it is as long as the pattern
matchPathExact(path, pp) ==
    /\ Len(path) = Len(pp)
    /\ \A i \in 1..Len(pp) : pp[i] = "*" \/ path[i] = pp[i]

\* pp is strings.Split(pattern, ".")
matchPath(path, pp) ==
    /\ Len(path) >= Len(pp)
    /\ \A i \in 1..Len(pp) : pp[i] = "*" \/ path[i] = pp[i]

\* no pattern looked at
detectObjectTypeOther(path) == Other

detectObjectType(path) ==
    LET hits == {i \in 1..Len(objectPaths) : matchPath(path, objectPaths[i].pattern)}
    IN IF hits = {} THEN Other
       ELSE objectPaths[CHOOSE i \in hits : \A j \in hits : i <= j].object

(***************************************************************************)
(* compare: nil (the empty sequence) when the values are deeply equal,     *)
(* else one Change. pv is the value of the path at the time of the call,   *)
(* ps the slice header the Change keeps.                                   *)
(***************************************************************************)
compare(old, new, ps, pv, level) ==
    IF DeepEqual(old, new) THEN <<>>
    ELSE << [Path |-> ps,
             Type |-> detectChangeType(old, new),
             Object |-> detectObjectType(pv),
             Criticality |-> level,
             Old |-> old,
             New |-> new] >>

(***************************************************************************)
(* Iteration order of a Go map. A range over a map visits the keys in an   *)
(* order the runtime picks; ord.perm orders the parameter names, and the   *)
(* keys of a generic walk are visited in a fixed order or, with ord.rev,   *)
(* in the reverse of it.                                                   *)
(***************************************************************************)
RECURSIVE SetToSeq(_)
SetToSeq(S) ==
    IF S = {} THEN <<>>
    ELSE LET x == CHOOSE y \in S : TRUE IN <<x>> \o SetToSeq(S \ {x})

Reverse(s) == [i \in 1..Len(s) |-> s[Len(s) + 1 - i]]

Range(s) == {s[i] : i \in 1..Len(s)}

OrderKeys(S, ord) ==
    LET known == SelectSeq(ord.perm, LAMBDA k : k \in S)
        rest == SetToSeq(S \ Range(ord.perm))
    IN IF ord.rev THEN Reverse(known \o rest) ELSE known \o rest

(***************************************************************************)
(* The generic walk: getEmbedSimpleType, getIdentifier, getMap and         *)
(* compareRecursive.                                                       *)
(***************************************************************************)
\* a struct that embeds one exported, non-zero scalar carries it in field e
getEmbedSimpleType(x) == isStruct(x) /\ "e" \in DOMAIN x

\* the field whose json tag is marked identifier, printed with %v: the code of
\* an error; "" stands for no identifier
getIdentifier(x) ==
    IF x.t = "ErrorOrReference" THEN ToString(x.v.obj.v.Code) ELSE ""

\* the value getIdentifier hands back: the embedded struct it found the tag in
identified(x) ==
    IF x.t = "ErrorOrReference" THEN x.v.obj ELSE x

\* the fields of a struct by json name; omitempty drops a zero field
structFields(x) ==
    CASE x.t = "*ErrorObject" ->
           [f \in {"code", "message"} |->
               IF f = "code" THEN Scalar("int64", x.v.Code) ELSE Str(x.v.Message)]
      [] x.t = "*InfoObject" ->
           [f \in {"title", "version"} |->
               IF f = "title" THEN Str(x.v.Title) ELSE Str(x.v.Version)]
      [] x.t = "ServerObject" ->
           [f \in {"name", "url"} |->
               IF f = "name" THEN Str(x.v.Name) ELSE Str(x.v.Url)]
      [] x.t = "MethodOrReference" ->
           LET m == x.v.obj.v
               all == [name |-> Str(m.Name),
                       summary |-> Str(m.Summary),
                       paramStructure |-> Str(m.ParamStructure),
                       params |-> Slice("[]ContentDescriptorOrReference", m.Params),
                       result |-> m.Result,
                       errors |-> Slice("[]ErrorOrReference", m.Errors)]
               keep == {"name", "params", "result", "errors"}
                         \cup (IF m.Summary # "" THEN {"summary"} ELSE {})
                         \cup (IF m.ParamStructure # "" THEN {"paramStructure"} ELSE {})
           IN [f \in keep |-> all[f]]
      [] x.t = "JSONSchema" ->
           LET s == x.v
               all == [title |-> Str(s.Title),
                       description |-> Str(s.Description),
                       type |-> s.Type,
                       items |-> s.Items,
                       required |-> Slice("[]string", [i \in 1..Len(s.Required) |-> Str(s.Required[i])]),
                       properties |-> s.Properties]
               dollar == [f \in {"$id", "$ref"} |-> IF f = "$id" THEN Str(s.Id) ELSE Str(s.Ref)]
               keep == (IF s.Title # "" THEN {"title"} ELSE {})
                         \cup (IF s.Description # "" THEN {"description"} ELSE {})
                         \cup (IF ~isNil(s.Type) THEN {"type"} ELSE {})
                         \cup (IF ~isNil(s.Items) THEN {"items"} ELSE {})
                         \cup (IF Len(s.Required) > 0 THEN {"required"} ELSE {})
                         \cup (IF ~isNil(s.Properties) THEN {"properties"} ELSE {})
               keepd == (IF s.Id # "" THEN {"$id"} ELSE {})
                         \cup (IF s.Ref # "" THEN {"$ref"} ELSE {})
           IN [f \in keep \cup keepd |-> IF f \in keepd THEN dollar[f] ELSE all[f]]
      [] OTHER -> x.v

\* the key of the i-th element of a slice: its identifier, else its index
sliceKey(x, i) ==
    IF isStruct(x.v[i]) /\ getIdentifier(x.v[i]) # ""
    THEN getIdentifier(x.v[i])
    ELSE ToString(i - 1)

getMap(x) ==
    IF isNil(x) THEN << >>
    ELSE IF isSlice(x)
    THEN LET keys == {sliceKey(x, i) : i \in 1..Len(x.v)}
             \* a later element with the same key overwrites an earlier one
             at(key) == CHOOSE i \in 1..Len(x.v) :
                           /\ sliceKey(x, i) = key
                           /\ \A j \in 1..Len(x.v) : sliceKey(x, j) = key => j <= i
         IN [key \in keys |-> identified(x.v[at(key)])]
    ELSE IF isStruct(x) THEN structFields(x)
    ELSE << >>

\* compareRecursive works on its own copy of the path: the value p
RECURSIVE compareRecursive(_, _, _, _, _)
compareRecursive(old, new, p, exclude, ord) ==
    IF last(p) \in exclude THEN <<>>
    ELSE IF isNil(old) # isNil(new) THEN compare(old, new, p, p, NonBreaking)
    ELSE
      LET c1 == IF ~sameType(old, new) THEN compare(old, new, p, p, NonBreaking) ELSE <<>>
      IN IF getEmbedSimpleType(old) /\ getEmbedSimpleType(new)
         THEN c1 \o compare(old.e, new.e, p, p, NonBreaking)
         ELSE IF \/ isStruct(old) /\ isStruct(new)
                 \/ isMap(old) /\ isMap(new)
                 \/ isSlice(old) /\ isSlice(new)
         THEN LET oldMap == getMap(old)
                  newMap == getMap(new)
                  oldKeys == OrderKeys(DOMAIN oldMap, ord)
                  leftKeys == OrderKeys(DOMAIN newMap \ DOMAIN oldMap, ord)
                  inOld[i \in 0..Len(oldKeys)] ==
                      IF i = 0 THEN <<>>
                      ELSE inOld[i - 1] \o
                           compareRecursive(oldMap[oldKeys[i]],
                                            IF oldKeys[i] \in DOMAIN newMap
                                            THEN newMap[oldKeys[i]] ELSE NIL,
                                            Append(p, oldKeys[i]), exclude, ord)
                  inNew[i \in 0..Len(leftKeys)] ==
                      IF i = 0 THEN <<>>
                      ELSE inNew[i - 1] \o
                           compareRecursive(NIL, newMap[leftKeys[i]],
                                            Append(p, leftKeys[i]), exclude, ord)
              IN c1 \o inOld[Len(oldKeys)] \o inNew[Len(leftKeys)]
         ELSE c1 \o compare(old, new, p, p, NonBreaking)

\* the Changes of a generic walk keep paths no later append can reach
RECURSIVE allocPaths(_, _)
allocPaths(ctx, cs) ==
    IF cs = <<>> THEN ctx
    ELSE LET r == NewSlice(ctx.hp, cs[1].Path)
         IN allocPaths([ctx EXCEPT !.ch = Append(@, [cs[1] EXCEPT !.Path = r.s]),
                                   !.hp = r.hp],
                       Tail(cs))

(***************************************************************************)
(* The specialised comparers. Each takes the context ctx = [ch, hp, s,     *)
(* panic] (the Changes so far, the heap of path arrays, the slice the last *)
(* append returned, whether a nil pointer was dereferenced) and returns it *)
(* with its own Changes appended, as its caller appends the list it        *)
(* returns. A statement of a comparer is an operator applied to the        *)
(* context the statement before it left.                                   *)
(***************************************************************************)
emit(ctx, cs) == [ctx EXCEPT !.ch = @ \o cs]
panic(ctx) == [ctx EXCEPT !.panic = TRUE]

\* append(path, seg), evaluated as the argument of a call
push(ctx, path, seg) ==
    LET a == AppendPath(ctx.hp, path, seg)
    IN [ctx EXCEPT !.hp = a.hp, !.s = a.s]

\* []string{...}
literal(ctx, segs) ==
    LET a == NewSlice(ctx.hp, segs)
    IN [ctx EXCEPT !.hp = a.hp, !.s = a.s]

\* what the slice of the last append shows
here(ctx) == PathVal(ctx.hp, ctx.s)

\* changes = append(changes, *compare(old, new, append(path, seg), level))
emitCompare(ctx, old, new, level) ==
    emit(ctx, compare(old, new, ctx.s, here(ctx), level))

\* the same with the path the comparer was given
emitCompareAt(ctx, old, new, path, level) ==
    emit(ctx, compare(old, new, path, PathVal(ctx.hp, path), level))

\* MethodObjectParamStructureEnum0..2 of the meta-schema
ByPosition == "by-position"
ByName == "by-name"
Either == "either"

\* the same with the old mode looked at before the new one
compareParamStructureOldFirst(old, new, ps) ==
    [Path |-> ps,
     Type |-> detectChangeType(Scalar("MethodObjectParamStructure", old),
                               Scalar("MethodObjectParamStructure", new)),
     Object |-> MethodParamStructure,
     Criticality |-> IF old = Either \/ old = "" THEN Dangerous
                     ELSE IF new = Either \/ new = "" THEN NonBreaking
                     ELSE IF old # new THEN Breaking
                     ELSE "",
     Old |-> Scalar("MethodObjectParamStructure", old),
     New |-> Scalar("MethodObjectParamStructure", new)]

compareParamStructure(old, new, ps) ==
    [Path |-> ps,
     Type |-> detectChangeType(Scalar("MethodObjectParamStructure", old),
                               Scalar("MethodObjectParamStructure", new)),
     Object |-> MethodParamStructure,
     Criticality |-> IF new = Either \/ new = "" THEN NonBreaking
                     ELSE IF old = Either \/ old = "" THEN Dangerous
                     ELSE IF old # new THEN Breaking
                     ELSE "",
     Old |-> Scalar("MethodObjectParamStructure", old),
     New |-> Scalar("MethodObjectParamStructure", new)]

IntegerTypes == {"integer", "int"}
NumberTypes == {"number", "float"}

\* every change of type taken as Breaking
typeLevelStrict(old, new) == Breaking

\* the level of a change from one named type to another
typeLevel(old, new) ==
    IF old \in IntegerTypes /\ new \in NumberTypes THEN NonBreaking ELSE Breaking

compareType(old, new, ps, pv) ==
    IF DeepEqual(old, new) THEN <<>>
    ELSE IF isNil(old) \/ isNil(new) THEN compare(old, new, ps, pv, Breaking)
    ELSE compare(Scalar("SimpleType", old.v.SimpleType),
                 Scalar("SimpleType", new.v.SimpleType), ps, pv,
                 typeLevel(old.v.SimpleType, new.v.SimpleType))

\* the reference string of a string or of a (pointer to a) ReferenceObject
refVal(x) == IF isNil(x) THEN "" ELSE IF x.k = "scalar" THEN x.v ELSE x.v.Ref

compareRef(old, new, ps, pv) ==
    IF DeepEqual(old, new) THEN <<>>
    ELSE IF ~sameType(old, new) \/ isNil(old) \/ isNil(new)
    THEN compare(old, new, ps, pv, Breaking)
    ELSE IF refVal(old) = "" THEN compare(NIL, Str(refVal(new)), ps, pv, Breaking)
    ELSE IF refVal(new) = "" THEN compare(Str(refVal(old)), NIL, ps, pv, Breaking)
    ELSE compare(Str(refVal(old)), Str(refVal(new)), ps, pv, Breaking)

\* SchemaMap.Get: the first schema of the list with that id
schemaGet(list, id) ==
    LET hits == {i \in 1..Len(list) : list[i].v.Id = id}
    IN IF hits = {} THEN 0 ELSE CHOOSE i \in hits : \A j \in hits : i <= j

\* the ids both lists have: index[newSchema.Id] = true
schemaIndex(olds, news) ==
    {olds[i].v.Id : i \in 1..Len(olds)} \cap {news[i].v.Id : i \in 1..Len(news)}

requiredSlice(list) == Slice("[]string", [i \in 1..Len(list) |-> Str(list[i])])

\* every Change of the required walk of an input raised, whatever its kind
requiredLevelsAnyKind(cs, isInput) ==
    [i \in 1..Len(cs) |->
        IF isInput THEN [cs[i] EXCEPT !.Criticality = Breaking] ELSE cs[i]]

\* the required walk of compareJSONSchema: an Added entry of an input is Breaking
requiredLevels(cs, isInput) ==
    [i \in 1..Len(cs) |->
        IF cs[i].Type = Added /\ isInput THEN [cs[i] EXCEPT !.Criticality = Breaking]
        ELSE cs[i]]

schemaExclude == {"required", "items", "type", "$ref", "properties"}

\* the levels compareJSONSchemaProperties gives a property removed, added
propertyRemovedLevel == Dangerous
propertyAddedLevel == NonBreaking

RECURSIVE compareJSONSchema(_, _, _, _, _, _)

\* type: ctx is the context after append(path, "type")
schemaType(ctx, old, new) ==
    emit(ctx, compareType(old.v.Type, new.v.Type, ctx.s, here(ctx)))

\* items
schemaItems(ctx, old, new, path, isInput, ord) ==
    IF DeepEqual(old.v.Items, new.v.Items) THEN ctx
    ELSE IF ~isNil(old.v.Items) /\ ~isNil(new.v.Items)
    THEN compareJSONSchema(push(ctx, path, "items"), old.v.Items.v.JSONSchema,
                           new.v.Items.v.JSONSchema,
                           push(ctx, path, "items").s, isInput, ord)
    ELSE IF isNil(old.v.Items)
    THEN emitCompare(push(ctx, path, "items"), NIL, new.v.Items, Breaking)
    ELSE emitCompare(push(ctx, path, "items"), new.v.Items, NIL, Breaking)

\* required: ctx is the context after append(path, "required")
schemaRequired(ctx, old, new, isInput, ord) ==
    allocPaths(ctx, requiredLevels(compareRecursive(requiredSlice(old.v.Required),
                                                    requiredSlice(new.v.Required),
                                                    here(ctx), {}, ord),
                                   isInput))

\* one schema of the old properties: ctx is the context after append(path, id)
propertyOfOld(ctx, oldSchema, news, isInput, ord) ==
    IF schemaGet(news, oldSchema.v.Id) # 0
    THEN compareJSONSchema(ctx, oldSchema, news[schemaGet(news, oldSchema.v.Id)],
                           ctx.s, isInput, ord)
    ELSE emitCompare(ctx, oldSchema, NIL, propertyRemovedLevel)

\* one schema of the new properties
propertyOfNew(ctx, newSchema, path, index) ==
    IF newSchema.v.Id \in index THEN ctx
    ELSE emitCompare(push(ctx, path, newSchema.v.Id), NIL, newSchema, propertyAddedLevel)

compareJSONSchemaProperties(ctx, old, new, path, isInput, ord) ==
    IF ctx.panic \/ DeepEqual(old, new) THEN ctx
    ELSE IF isNil(old) THEN emitCompareAt(ctx, NIL, new, path, NonBreaking)
    ELSE IF isNil(new) THEN emitCompareAt(ctx, old, NIL, path, NonBreaking)
    ELSE
      LET inOld[i \in 0..Len(old.v)] ==
              IF i = 0 THEN ctx
              ELSE propertyOfOld(push(inOld[i - 1], path, old.v[i].v.Id), old.v[i],
                                 new.v, isInput, ord)
          inNew[i \in 0..Len(new.v)] ==
              IF i = 0 THEN inOld[Len(old.v)]
              ELSE propertyOfNew(inNew[i - 1], new.v[i], path,
                                 schemaIndex(old.v, new.v))
      IN inNew[Len(new.v)]

\* properties: ctx is the context after append(path, "properties")
schemaProperties(ctx, old, new, isInput, ord) ==
    compareJSONSchemaProperties(ctx, old.v.Properties, new.v.Properties, ctx.s,
                                isInput, ord)

\* rest of the fields
schemaRest(ctx, old, new, path, ord) ==
    allocPaths(ctx, compareRecursive(old, new, PathVal(ctx.hp, path), schemaExclude, ord))

\* compareJSONSchema from its compareRef: ctx is the context after
\* append(path, "$ref")
schemaFromRef(ctx, old, new, path, isInput, ord) ==
    IF compareRef(Str(old.v.Ref), Str(new.v.Ref), ctx.s, here(ctx)) # <<>>
    THEN emit(ctx, compareRef(Str(old.v.Ref), Str(new.v.Ref), ctx.s, here(ctx)))
    ELSE schemaRest(
           schemaProperties(
             push(schemaRequired(
                    push(schemaItems(schemaType(push(ctx, path, "type"), old, new),
                                     old, new, path, isInput, ord),
                         path, "required"),
                    old, new, isInput, ord),
                  path, "properties"),
             old, new, isInput, ord),
           old, new, path, ord)

compareJSONSchema(ctx, old, new, path, isInput, ord) ==
    IF ctx.panic \/ DeepEqual(old, new) THEN ctx
    ELSE IF (old.v.Ref # "") # (new.v.Ref # "")
    THEN emitCompareAt(ctx, old, new, path, Breaking)
    ELSE schemaFromRef(push(ctx, path, "$ref"), old, new, path, isInput, ord)

\* a flip of the required flag taken as Breaking in both directions
requiredFlagMirrored(new) == Breaking

\* the level of a flip of the required flag to the value new
requiredFlagLevel(new) == IF new THEN Breaking ELSE NonBreaking

\* required
descriptorRequired(ctx, o, n, path) ==
    IF o.Required # n.Required
    THEN emitCompare(push(ctx, path, "required"), Bool(o.Required), Bool(n.Required),
                     requiredFlagLevel(n.Required))
    ELSE ctx

\* schema: *old.Schema of a descriptor without a schema dereferences nil
descriptorSchema(ctx, o, n, path, isInput, ord) ==
    IF isNil(o.Schema) \/ isNil(n.Schema) THEN panic(ctx)
    ELSE compareJSONSchema(push(ctx, path, "schema"), o.Schema, n.Schema,
                           push(ctx, path, "schema").s, isInput, ord)

\* summary
descriptorSummary(ctx, o, n, path) ==
    IF ctx.panic \/ o.Summary = n.Summary THEN ctx
    ELSE emitCompare(push(ctx, path, "summary"), Str(o.Summary), Str(n.Summary),
                     NonBreaking)

\* description
descriptorDescription(ctx, o, n, path) ==
    IF ctx.panic \/ o.Description = n.Description THEN ctx
    ELSE emitCompare(push(ctx, path, "description"), Str(o.Description),
                     Str(n.Description), NonBreaking)

\* compareContentDescriptor from its compareRef: ctx is the context after
\* append(path, "$ref"); old.Required of a bare reference dereferences nil
descriptorFromRef(ctx, old, new, path, isInput, ord) ==
    IF compareRef(old.v.ref, new.v.ref, ctx.s, here(ctx)) # <<>>
    THEN emit(ctx, compareRef(old.v.ref, new.v.ref, ctx.s, here(ctx)))
    ELSE IF isNil(old.v.cd) \/ isNil(new.v.cd) THEN panic(ctx)
    ELSE descriptorDescription(
           descriptorSummary(
             descriptorSchema(descriptorRequired(ctx, old.v.cd.v, new.v.cd.v, path),
                              old.v.cd.v, new.v.cd.v, path, isInput, ord),
             old.v.cd.v, new.v.cd.v, path),
           old.v.cd.v, new.v.cd.v, path)

compareContentDescriptor(ctx, old, new, path, isInput, ord) ==
    IF ctx.panic THEN ctx
    ELSE IF ~isNil(old.v.cd) /\ ~isNil(new.v.ref)
    THEN emitCompareAt(ctx, old.v.cd, new.v.ref, path, Breaking)
    ELSE IF ~isNil(old.v.ref) /\ ~isNil(new.v.cd)
    THEN emitCompareAt(ctx, old.v.ref, new.v.cd, path, Breaking)
    ELSE descriptorFromRef(push(ctx, path, "$ref"), old, new, path, isInput, ord)

\* the descriptor of a result: ctx is the context after append(path, "result")
resultDescriptor(ctx, old, new, ord) ==
    compareContentDescriptor(ctx, Struct("ContentDescriptorOrReference", old.v),
                             Struct("ContentDescriptorOrReference", new.v),
                             ctx.s, FALSE, ord)

compareMethodResults(ctx, old, new, path, ord) ==
    IF ctx.panic \/ DeepEqual(old, new) THEN ctx
    ELSE IF isNil(old) THEN emitCompareAt(ctx, old, new, path, NonBreaking)
    ELSE IF isNil(new) THEN emitCompareAt(ctx, old, new, path, Breaking)
    ELSE resultDescriptor(push(ctx, path, "result"), old, new, ord)

compareMethodErrors(ctx, old, new, path, ord) ==
    allocPaths(ctx, compareRecursive(Slice("[]ErrorOrReference", old),
                                     Slice("[]ErrorOrReference", new),
                                     PathVal(ctx.hp, path), {}, ord))

\* param.Name of a parameter given as a bare reference dereferences nil
paramNames(params) == {params[i].v.cd.v.Name : i \in 1..Len(params)}
\* oldMap[param.Name] = param: the last parameter of a name stays
paramOf(params, name) ==
    params[CHOOSE i \in 1..Len(params) :
              /\ params[i].v.cd.v.Name = name
              /\ \A j \in 1..Len(params) : params[j].v.cd.v.Name = name => j <= i]

\* an added parameter taken as NonBreaking whether required or not
paramAddedLenient(newParam) == NonBreaking

\* the levels compareMethodParams gives a parameter deleted, added
paramRemovedLevel == NonBreaking
paramAddedLevel(newParam) == IF newParam.v.cd.v.Required THEN Breaking ELSE NonBreaking

\* one name of oldMap: ctx is the context after append(path, oldParamName)
paramOfOld(ctx, name, old, new, ord) ==
    IF name \in paramNames(new)
    THEN compareContentDescriptor(ctx, paramOf(old, name), paramOf(new, name), ctx.s,
                                  TRUE, ord)
    ELSE emitCompare(ctx, paramOf(old, name), NIL, paramRemovedLevel)

\* one name left in newMap: ctx is the context after append(path, newParamName)
paramOfNew(ctx, newParam) ==
    emitCompare(ctx, NIL, newParam, paramAddedLevel(newParam))

compareMethodParams(ctx, old, new, path, ord) ==
    IF ctx.panic THEN ctx
    ELSE IF \E i \in 1..Len(old) : isNil(old[i].v.cd) THEN panic(ctx)
    ELSE IF \E i \in 1..Len(new) : isNil(new[i].v.cd) THEN panic(ctx)
    ELSE
      LET oldKeys == OrderKeys(paramNames(old), ord)
          newKeys == OrderKeys(paramNames(new) \ paramNames(old), ord)
          inOld[i \in 0..Len(oldKeys)] ==
              IF i = 0 THEN ctx
              ELSE paramOfOld(push(inOld[i - 1], path, oldKeys[i]), oldKeys[i],
                              old, new, ord)
          inNew[i \in 0..Len(newKeys)] ==
              IF i = 0 THEN inOld[Len(oldKeys)]
              ELSE paramOfNew(push(inNew[i - 1], path, newKeys[i]),
                              paramOf(new, newKeys[i]))
      IN inNew[Len(newKeys)]

methodExclude == {"paramStructure", "params", "result", "errors"}

\* param structure
methodParamStructure(ctx, o, n, path) ==
    IF o.ParamStructure # n.ParamStructure
    THEN emit(push(ctx, path, "paramStructure"),
              <<compareParamStructure(o.ParamStructure, n.ParamStructure,
                                      push(ctx, path, "paramStructure").s)>>)
    ELSE ctx

\* params, results, errors: ctx is the context after the append of the call
methodParams(ctx, o, n, ord) == compareMethodParams(ctx, o.Params, n.Params, ctx.s, ord)
methodResults(ctx, o, n, ord) == compareMethodResults(ctx, o.Result, n.Result, ctx.s, ord)
methodErrors(ctx, o, n, ord) ==
    IF ctx.panic THEN ctx ELSE compareMethodErrors(ctx, o.Errors, n.Errors, ctx.s, ord)

\* rest of the fields
methodRest(ctx, old, new, path, ord) ==
    IF ctx.panic THEN ctx
    ELSE allocPaths(ctx, compareRecursive(old, new, PathVal(ctx.hp, path),
                                          methodExclude, ord))

compareMethod(ctx, old, new, path, ord) ==
    methodRest(
      methodErrors(
        push(methodResults(
               push(methodParams(
                      push(methodParamStructure(ctx, old.v.obj.v, new.v.obj.v, path),
                           path, "params"),
                      old.v.obj.v, new.v.obj.v, ord),
                    path, "result"),
               old.v.obj.v, new.v.obj.v, ord),
             path, "errors"),
        old.v.obj.v, new.v.obj.v, ord),
      old, new, path, ord)

\* a deleted method taken as NonBreaking
methodRemovedLenient == NonBreaking

\* the levels compareMethods gives a method that is deleted, that is added
methodRemovedLevel == Breaking
methodAddedLevel == NonBreaking

\* method.Name of a method given as a bare reference dereferences nil
methodNames(ms) == {ms[i].v.obj.v.Name : i \in 1..Len(ms)}
methodOf(ms, name) ==
    ms[CHOOSE i \in 1..Len(ms) :
          /\ ms[i].v.obj.v.Name = name
          /\ \A j \in 1..Len(ms) : ms[j].v.obj.v.Name = name => j <= i]

\* one name of oldMap: ctx is the context after []string{"methods", name}
methodOfOld(ctx, name, old, new, ord) ==
    IF ctx.panic THEN ctx
    ELSE IF name \in methodNames(new)
    THEN compareMethod(ctx, methodOf(old, name), methodOf(new, name), ctx.s, ord)
    ELSE emitCompare(ctx, methodOf(old, name), NIL, methodRemovedLevel)

\* one name left in newMap
methodOfNew(ctx, newMethod) ==
    IF ctx.panic THEN ctx
    ELSE emitCompare(ctx, NIL, newMethod, methodAddedLevel)

\* ord.mperm is the order the two ranges visit the method names in
compareMethods(ctx, old, new, ord) ==
    IF \E i \in 1..Len(old) : isNil(old[i].v.obj) THEN panic(ctx)
    ELSE IF \E i \in 1..Len(new) : isNil(new[i].v.obj) THEN panic(ctx)
    ELSE
      LET oldKeys == SelectSeq(ord.mperm, LAMBDA k : k \in methodNames(old))
          newKeys == SelectSeq(ord.mperm,
                               LAMBDA k : k \in methodNames(new) \ methodNames(old))
          inOld[i \in 0..Len(oldKeys)] ==
              IF i = 0 THEN ctx
              ELSE methodOfOld(literal(inOld[i - 1], <<"methods", oldKeys[i]>>),
                               oldKeys[i], old, new, ord)
          inNew[i \in 0..Len(newKeys)] ==
              IF i = 0 THEN inOld[Len(oldKeys)]
              ELSE methodOfNew(literal(inNew[i - 1], <<"methods", newKeys[i]>>),
                               methodOf(new, newKeys[i]))
      IN inNew[Len(newKeys)]

(***************************************************************************)
(* The transitive required-input detector.                                 *)
(***************************************************************************)
MaxLevel == 5

schemaRef(name) == "#/components/schemas/" \o name

\* the reference a parameter carries: its own, else that of its schema
paramRef(param) ==
    IF ~isNil(param.v.ref) THEN param.v.ref.v.Ref
    ELSE IF ~isNil(param.v.cd) /\ ~isNil(param.v.cd.v.Schema)
    THEN param.v.cd.v.Schema.v.Ref
    ELSE ""

docSchemas(doc) ==
    IF ~isNil(doc.Components) /\ ~isNil(doc.Components.v.Schemas)
    THEN doc.Components.v.Schemas.v
    ELSE <<>>

RECURSIVE detectRequiredInput(_, _, _, _)
detectRequiredInput(name, doc, checked, level) ==
    IF level > MaxLevel THEN FALSE
    ELSE
      \/ \E i \in 1..Len(doc.Methods) :
           \E j \in 1..Len(doc.Methods[i].v.obj.v.Params) :
             LET param == doc.Methods[i].v.obj.v.Params[j]
             IN /\ schemaRef(name) = paramRef(param)
                /\ (level = 0 /\ param.v.cd.v.Required) \/ level > 0
      \/ \E i \in 1..Len(docSchemas(doc)) :
           LET schema == docSchemas(doc)[i]
           IN /\ ~isNil(schema.v.Properties)
              /\ schema.v.Id \notin Range(checked)
              /\ \E j \in 1..Len(schema.v.Properties.v) :
                   LET prop == schema.v.Properties.v[j]
                   IN /\ prop.v.Ref = schemaRef(name)
                      /\ prop.v.Title \in Range(schema.v.Required)
                      /\ detectRequiredInput(schema.v.Id, doc, Append(checked, name),
                                             level + 1)

(***************************************************************************)
(* Components.                                                             *)
(***************************************************************************)
\* one schema of the old map: ctx is the context after append(path, id)
componentOfOld(ctx, oldSchema, news, newDoc, ord) ==
    IF schemaGet(news, oldSchema.v.Id) # 0
    THEN compareJSONSchema(ctx, oldSchema, news[schemaGet(news, oldSchema.v.Id)], ctx.s,
                           detectRequiredInput(news[schemaGet(news, oldSchema.v.Id)].v.Id,
                                               newDoc, <<>>, 0),
                           ord)
    ELSE emitCompare(ctx, oldSchema, NIL, NonBreaking)

\* one schema of the new map
componentOfNew(ctx, newSchema, path, index) ==
    IF newSchema.v.Id \in index THEN ctx
    ELSE emitCompare(push(ctx, path, newSchema.v.Id), NIL, newSchema, NonBreaking)

\* a nil map is compared as an empty one
schemaList(m) == IF isNil(m) THEN <<>> ELSE m.v

\* ctx is the context after path := []string{"components", "schemas"}
componentsSchemas(ctx, old, new, path, newDoc, ord) ==
    IF isNil(old) # isNil(new) THEN emitCompare(ctx, old, new, NonBreaking)
    ELSE
      LET inOld[i \in 0..Len(schemaList(old))] ==
              IF i = 0 THEN ctx
              ELSE componentOfOld(push(inOld[i - 1], path, schemaList(old)[i].v.Id),
                                  schemaList(old)[i], schemaList(new), newDoc, ord)
          inNew[i \in 0..Len(schemaList(new))] ==
              IF i = 0 THEN inOld[Len(schemaList(old))]
              ELSE componentOfNew(inNew[i - 1], schemaList(new)[i], path,
                                  schemaIndex(schemaList(old), schemaList(new)))
      IN inNew[Len(schemaList(new))]

compareComponentsSchemas(ctx, old, new, oldDoc, newDoc, ord) ==
    componentsSchemas(literal(ctx, <<"components", "schemas">>), old, new,
                      literal(ctx, <<"components", "schemas">>).s, newDoc, ord)

\* the shared content descriptors compared before the schemas
compareComponentsAll(ctx, oldDoc, newDoc, ord) ==
    IF isNil(oldDoc.Components) \/ isNil(newDoc.Components) THEN panic(ctx)
    ELSE compareComponentsSchemas(
             emitCompare(literal(ctx, <<"components", "contentDescriptors">>),
                         oldDoc.Components.v.ContentDescriptors,
                         newDoc.Components.v.ContentDescriptors, NonBreaking),
             oldDoc.Components.v.Schemas, newDoc.Components.v.Schemas,
             oldDoc, newDoc, ord)

\* oldDoc.Components.Schemas of a document without components dereferences nil
compareComponents(ctx, oldDoc, newDoc, ord) ==
    IF isNil(oldDoc.Components) \/ isNil(newDoc.Components) THEN panic(ctx)
    ELSE compareComponentsSchemas(ctx, oldDoc.Components.v.Schemas,
                                  newDoc.Components.v.Schemas, oldDoc, newDoc, ord)

(***************************************************************************)
(* The overall criticality: the loop of NewDiffBytes over the Changes.     *)
(***************************************************************************)
\* the loop without its break: the last Change that is not NonBreaking decides
diffCriticalityLast(cs) ==
    LET loop[i \in 0..Len(cs)] ==
            IF i = 0 THEN NonBreaking
            ELSE IF cs[i].Criticality \in {Breaking, Dangerous} THEN cs[i].Criticality
            ELSE loop[i - 1]
    IN loop[Len(cs)]

diffCriticality(cs) ==
    LET loop[i \in 0..Len(cs)] ==
            IF i = 0 THEN [crit |-> NonBreaking, stop |-> FALSE]
            ELSE LET r == loop[i - 1]
                 IN IF r.stop THEN r
                    ELSE IF cs[i].Criticality = Breaking
                    THEN [crit |-> Breaking, stop |-> TRUE]
                    ELSE IF cs[i].Criticality = Dangerous
                    THEN [crit |-> Dangerous, stop |-> FALSE]
                    ELSE r
    IN loop[Len(cs)].crit

(***************************************************************************)
(* Documents.                                                              *)
(***************************************************************************)
TypeOf(t) == IF t = "" THEN NilPtr("*Type") ELSE Struct("*Type", [SimpleType |-> t])

NoItems == NilPtr("*Items")
NoProperties == NilPtr("*SchemaMap")
Properties(list) == Slice("*SchemaMap", list)

Schema(id, title, ref, type, required, props, description) ==
    Struct("JSONSchema",
           [Id |-> id, Title |-> title, Ref |-> ref, Type |-> TypeOf(type),
            Items |-> NoItems, Required |-> required, Properties |-> props,
            Description |-> description])

ArrayOf(s, item) ==
    [s EXCEPT !.v.Items = Struct("*Items", [JSONSchema |-> item])]

\* an inline schema of a primitive type
TypeSchema(t) == Schema("", "", "", t, <<>>, NoProperties, "")
\* a reference to a shared schema
RefSchema(name) == Schema("", "", schemaRef(name), "", <<>>, NoProperties, "")

NoReference == NilPtr("*ReferenceObject")
NoDescriptor == NilPtr("*ContentDescriptorObject")
NoSchema == NilPtr("*JSONSchema")

Descriptor(name, required, schema, description) ==
    Struct("*ContentDescriptorObject",
           [Name |-> name, Required |-> required, Schema |-> schema,
            Summary |-> "", Description |-> description])

Param(name, required, schema) ==
    Struct("ContentDescriptorOrReference",
           [cd |-> Descriptor(name, required, schema, ""), ref |-> NoReference])

\* a parameter or result given as a bare reference to a shared descriptor
Reference(target) ==
    [cd |-> NoDescriptor, ref |-> Struct("*ReferenceObject", [Ref |-> target])]

NoResult == NilPtr("*MethodObjectResult")
Result(name, schema, description) ==
    Struct("*MethodObjectResult",
           [cd |-> Descriptor(name, FALSE, schema, description), ref |-> NoReference])
ResultRef(target) == Struct("*MethodObjectResult", Reference(target))

Error(code, message) ==
    Struct("ErrorOrReference",
           [obj |-> Struct("*ErrorObject", [Code |-> code, Message |-> message])])

MethodObj(name, paramStructure, params, result, errors, summary) ==
    Struct("MethodOrReference",
           [obj |-> Struct("*MethodObject",
                           [Name |-> name, ParamStructure |-> paramStructure,
                            Params |-> params, Result |-> result, Errors |-> errors,
                            Summary |-> summary]),
            ref |-> NoReference])

\* a method given as a bare reference
MethodRef(target) ==
    Struct("MethodOrReference",
           [obj |-> NilPtr("*MethodObject"),
            ref |-> Struct("*ReferenceObject", [Ref |-> target])])

Info(title, version) == Struct("*InfoObject", [Title |-> title, Version |-> version])
Server(name, url) == Struct("ServerObject", [Name |-> name, Url |-> url])
Servers(list) == Slice("[]ServerObject", list)

NoComponents == NilPtr("*Components")
\* a components block with its schemas and its content descriptors
ComponentsWith(schemas, descriptors) ==
    Struct("*Components", [Schemas |-> schemas, ContentDescriptors |-> descriptors])
Components(schemas) == ComponentsWith(schemas, NilPtr("*ContentDescriptorMap"))
Schemas(list) == Slice("*SchemaMap", list)

Document(openrpc, info, servers, methods, components) ==
    [Openrpc |-> openrpc, Info |-> info, Servers |-> servers, Methods |-> methods,
     Components |-> components]

(***************************************************************************)
(* The diff as a state machine: the steps of NewDiffBytes.                 *)
(***************************************************************************)
VARIABLES oldDoc, newDoc, options, pc, changes, heap, criticality, call

vars == <<oldDoc, newDoc, options, pc, changes, heap, criticality, call>>

\* call holds the arguments and the result of a function called on its own;
\* a run of the diff makes no such call
NoCall == [path |-> <<>>, pattern |-> <<>>, done |-> TRUE, result |-> FALSE]

PermSeqs(S) ==
    {s \in [1..Cardinality(S) -> S] : \A i, j \in 1..Cardinality(S) : s[i] = s[j] => i = j}

docMethodNames(doc) ==
    {doc.Methods[i].v.obj.v.Name : i \in {k \in 1..Len(doc.Methods) : ~isNil(doc.Methods[k].v.obj)}}

docParamNames(doc) ==
    UNION {LET ps == doc.Methods[i].v.obj.v.Params
           IN {ps[j].v.cd.v.Name : j \in {k \in 1..Len(ps) : ~isNil(ps[k].v.cd)}} :
           i \in {k \in 1..Len(doc.Methods) : ~isNil(doc.Methods[k].v.obj)}}

\* the iteration orders the runtime may pick for the maps of this pair
Orders ==
    [mperm : PermSeqs(docMethodNames(oldDoc) \cup docMethodNames(newDoc)),
     perm : PermSeqs(docParamNames(oldDoc) \cup docParamNames(newDoc)),
     rev : BOOLEAN]

WalkOrders == [mperm : {<<>>}, perm : {<<>>}, rev : BOOLEAN]

Start(old, new, showMeta) ==
    /\ oldDoc = old
    /\ newDoc = new
    /\ options = [ShowMeta |-> showMeta]
    /\ pc = "openrpc"
    /\ changes = <<>>
    /\ heap = <<>>
    /\ criticality = NonBreaking
    /\ call = NoCall

context ==
    [ch |-> changes, hp |-> heap, s |-> [a |-> 0, n |-> 0, c |-> 0], panic |-> FALSE]

Continue(ctx, next) ==
    IF ctx.panic
    THEN /\ pc' = "panic"
         /\ UNCHANGED <<changes, heap>>
    ELSE /\ pc' = next
         /\ changes' = ctx.ch
         /\ heap' = ctx.hp

\* the info section compared whatever the option says
compareInfoAlways(ctx, old, new, ord) ==
    allocPaths(ctx, compareRecursive(old, new, <<"info">>, {}, ord))

compareInfo(ctx, old, new, ord) ==
    IF ~options.ShowMeta THEN ctx
    ELSE allocPaths(ctx, compareRecursive(old, new, <<"info">>, {}, ord))

compareServers(ctx, old, new, ord) ==
    IF ~options.ShowMeta THEN ctx
    ELSE allocPaths(ctx, compareRecursive(old, new, <<"servers">>, {}, ord))

CompareOpenrpc ==
    /\ pc = "openrpc"
    /\ Continue(emitCompare(literal(context, <<"openrpc">>), Str(oldDoc.Openrpc),
                            Str(newDoc.Openrpc), Breaking),
                "info")
    /\ UNCHANGED <<oldDoc, newDoc, options, criticality, call>>

CompareInfo ==
    /\ pc = "info"
    /\ \E ord \in WalkOrders :
         Continue(compareInfo(context, oldDoc.Info, newDoc.Info, ord), "servers")
    /\ UNCHANGED <<oldDoc, newDoc, options, criticality, call>>

CompareServers ==
    /\ pc = "servers"
    /\ \E ord \in WalkOrders :
         Continue(compareServers(context, oldDoc.Servers, newDoc.Servers, ord), "methods")
    /\ UNCHANGED <<oldDoc, newDoc, options, criticality, call>>

CompareMethods ==
    /\ pc = "methods"
    /\ \E ord \in Orders :
         Continue(compareMethods(context, oldDoc.Methods, newDoc.Methods, ord),
                  "components")
    /\ UNCHANGED <<oldDoc, newDoc, options, criticality, call>>

CompareComponents ==
    /\ pc = "components"
    /\ \E ord \in WalkOrders :
         Continue(compareComponents(context, oldDoc, newDoc, ord), "criticality")
    /\ UNCHANGED <<oldDoc, newDoc, options, criticality, call>>

ComputeCriticality ==
    /\ pc = "criticality"
    /\ criticality' = diffCriticality(changes)
    /\ pc' = "done"
    /\ UNCHANGED <<oldDoc, newDoc, options, changes, heap, call>>

Next ==
    \/ CompareOpenrpc
    \/ CompareInfo
    \/ CompareServers
    \/ CompareMethods
    \/ CompareComponents
    \/ ComputeCriticality

(***************************************************************************)
(* Helpers to read the Changes of a state.                                 *)
(***************************************************************************)
\* the path a Change shows now
pathOf(c) == PathVal(heap, c.Path)


(***************************************************************************)
(* Bounds and the names the documents are built from.                      *)
(***************************************************************************)
MaxMethods == 2
MaxParams == 2
MaxErrors == 2
MaxFields == 2
\* segments of a path, characters of a pattern
MaxSegments == 3
MaxPattern == 3

MethodNameList == <<"m1", "m2", "m3", "m4">>
ParamNameList == <<"p1", "p2", "p3", "p4">>
FieldNameList == <<"f1", "f2", "f3", "f4">>
ErrorCodeList == [i \in 1..(MaxErrors + 1) |-> i]
FieldNames == {FieldNameList[i] : i \in 1..MaxFields}

BaseInfo == Info("api", "1.0.0")
BaseServers == Servers(<<Server("main", "http://localhost/")>>)
EmptyComponents == Components(Schemas(<<>>))

\* a document that differs from its counterpart in its methods only
MethodsDoc(methods) ==
    Document("1.2.6", BaseInfo, BaseServers, methods, EmptyComponents)

RECURSIVE Flatten(_, _)
Flatten(f, n) == IF n = 0 THEN <<>> ELSE Flatten(f, n - 1) \o f[n]

\* every list that takes, for each of the first n names in turn, nothing or
\* one of the elements variants(name) offers
ListsOf(names, n, variants(_)) ==
    LET opt(i) == {<<>>} \cup {<<e>> : e \in variants(names[i])}
        picks == {f \in [1..n -> UNION {opt(i) : i \in 1..n}] :
                     \A i \in 1..n : f[i] \in opt(i)}
    IN {Flatten(f, n) : f \in picks}

methodsCompared == pc \in {"components", "criticality", "done"}

changesAt(path) == {i \in 1..Len(changes) : pathOf(changes[i]) = path}

\* the one method of a document of the families below
theMethod(doc) == doc.Methods[1].v.obj.v

(***************************************************************************)
(* SpecMethods: the two documents differ in which methods they have, in    *)
(* the order they list them and in the parameter structure of a method.    *)
(***************************************************************************)
MethodVariants(name) ==
    {MethodObj(name, ps, <<>>, NoResult, <<>>, "") : ps \in {"", ByName, ByPosition}}

MethodLists == ListsOf(MethodNameList, MaxMethods, MethodVariants)

InitMethods ==
    \E o \in MethodLists, n \in MethodLists, r \in BOOLEAN :
        Start(MethodsDoc(o), MethodsDoc(IF r THEN Reverse(n) ELSE n), FALSE)

SpecMethods == InitMethods /\ [][Next]_vars

(***************************************************************************)
(* SpecParams: one method in both documents; the documents differ in which *)
(* parameters it has, in their order and in their required flags.          *)
(***************************************************************************)
ParamVariants(name) == {Param(name, r, TypeSchema("string")) : r \in BOOLEAN}

ParamLists == ListsOf(ParamNameList, MaxParams, ParamVariants)

ParamsDoc(params) == MethodsDoc(<<MethodObj("m1", "", params, NoResult, <<>>, "")>>)

InitParams ==
    \E o \in ParamLists, n \in ParamLists, r \in BOOLEAN :
        Start(ParamsDoc(o), ParamsDoc(IF r THEN Reverse(n) ELSE n), FALSE)

SpecParams == InitParams /\ [][Next]_vars

(***************************************************************************)
(* SpecTypes: one required parameter and one property of a shared schema;  *)
(* the documents differ in the declared types of the two ("" is no type).  *)
(***************************************************************************)
TypeNames == {"", "integer", "int", "number", "float", "string"}

PropertyOf(name, type) == Schema(name, "", "", type, <<>>, NoProperties, "")

TypesDoc(paramType, propertyType) ==
    Document("1.2.6", BaseInfo, BaseServers,
             <<MethodObj("m1", "", <<Param("p1", TRUE, TypeSchema(paramType))>>,
                         NoResult, <<>>, "")>>,
             Components(Schemas(<<Schema("S", "", "", "object", <<>>,
                                         Properties(<<PropertyOf("f1", propertyType)>>),
                                         "")>>)))

InitTypes ==
    \E po \in TypeNames, pn \in TypeNames, fo \in TypeNames, fn \in TypeNames :
        Start(TypesDoc(po, fo), TypesDoc(pn, fn), FALSE)

SpecTypes == InitTypes /\ [][Next]_vars

(***************************************************************************)
(* SpecResults: one method in both documents; the documents differ in the  *)
(* name, the type and the description of its result.                       *)
(***************************************************************************)
ResultVariants ==
    {Result(n, TypeSchema(t), d) :
        n \in {"r1", "r2"}, t \in {"integer", "number", "string"}, d \in {"", "text"}}

ResultsDoc(result) == MethodsDoc(<<MethodObj("m1", "", <<>>, result, <<>>, "")>>)

InitResults ==
    \E o \in ResultVariants, n \in ResultVariants :
        Start(ResultsDoc(o), ResultsDoc(n), FALSE)

SpecResults == InitResults /\ [][Next]_vars

(***************************************************************************)
(* SpecErrors: one method in both documents; the documents differ in the   *)
(* errors it lists, in their order and in their messages.                  *)
(***************************************************************************)
ErrorVariants(code) == {Error(code, m) : m \in {"gone", "busy"}}

ErrorLists == ListsOf(ErrorCodeList, MaxErrors, ErrorVariants)

ErrorsDoc(errors) == MethodsDoc(<<MethodObj("m1", "", <<>>, NoResult, errors, "")>>)

InitErrors ==
    \E o \in ErrorLists, n \in ErrorLists, r \in BOOLEAN :
        Start(ErrorsDoc(o), ErrorsDoc(IF r THEN Reverse(n) ELSE n), FALSE)

SpecErrors == InitErrors /\ [][Next]_vars

errorCodes(doc) == {theMethod(doc).Errors[i].v.obj.v.Code : i \in 1..Len(theMethod(doc).Errors)}

(***************************************************************************)
(* SpecSchemas: one shared schema S in both documents; the documents       *)
(* differ in its properties and in its required list. The one parameter of *)
(* the one method references S and is required, references S and is        *)
(* optional, or does not reference S.                                      *)
(***************************************************************************)
PropertyVariants(name) == {PropertyOf(name, "string")}

PropertyLists == ListsOf(FieldNameList, MaxFields, PropertyVariants)

\* no properties at all, or a map of them (that may be empty)
PropertiesVariants == {NoProperties} \cup {Properties(l) : l \in PropertyLists}

RequiredLists == UNION {PermSeqs(S) : S \in SUBSET FieldNames}

Inputs == {"required", "optional", "none"}

SchemasDoc(props, required, input) ==
    Document("1.2.6", BaseInfo, BaseServers,
             <<MethodObj("m1", "",
                         <<Param("p1", input = "required",
                                 IF input = "none" THEN TypeSchema("string")
                                 ELSE RefSchema("S"))>>,
                         NoResult, <<>>, "")>>,
             Components(Schemas(<<Schema("S", "", "", "object", required, props, "")>>)))

InitSchemas ==
    \E po \in PropertiesVariants, pn \in PropertiesVariants,
       ro \in RequiredLists, rn \in RequiredLists, input \in Inputs :
        Start(SchemasDoc(po, ro, input), SchemasDoc(pn, rn, input), FALSE)

SpecSchemas == InitSchemas /\ [][Next]_vars

\* the shared schema of a document of this family
theSchema(doc) == doc.Components.v.Schemas.v[1].v

propertyIds(schema) ==
    IF isNil(schema.Properties) THEN {}
    ELSE {schema.Properties.v[i].v.Id : i \in 1..Len(schema.Properties.v)}

\* the Changes at or below a location
changesUnder(prefix) ==
    {i \in 1..Len(changes) :
        /\ Len(pathOf(changes[i])) >= Len(prefix)
        /\ SubSeq(pathOf(changes[i]), 1, Len(prefix)) = prefix}

(***************************************************************************)
(* SpecSelf: a document is compared with itself, with either value of the  *)
(* ShowMeta option. The documents are those of the families above and      *)
(* documents that leave out what the format lets them leave out.           *)
(***************************************************************************)
AnomalousDocs ==
    {Document("1.2.6", BaseInfo, BaseServers, <<>>, NoComponents),
     MethodsDoc(<<MethodRef("#/components/methods/m1")>>),
     ParamsDoc(<<Struct("ContentDescriptorOrReference",
                        Reference("#/components/contentDescriptors/p1"))>>),
     ParamsDoc(<<Param("p1", TRUE, NoSchema)>>)}

SelfDocs ==
    {MethodsDoc(l) : l \in MethodLists}
      \cup {ParamsDoc(l) : l \in ParamLists}
      \cup {ResultsDoc(r) : r \in ResultVariants}
      \cup {ErrorsDoc(l) : l \in ErrorLists}
      \cup {SchemasDoc(p, r, i) : p \in PropertiesVariants, r \in RequiredLists, i \in Inputs}
      \cup AnomalousDocs

InitSelf == \E d \in SelfDocs, showMeta \in BOOLEAN : Start(d, d, showMeta)

SpecSelf == InitSelf /\ [][Next]_vars

(***************************************************************************)
(* The properties.                                                         *)
(***************************************************************************)
\* C1: the overall criticality of the Diff is the maximum of the criticalities
\* of its Changes (Breaking over Dangerous over NonBreaking), NonBreaking when
\* there is no Change, whatever the order of the Changes.
DiffCriticalityIsMax ==
    pc = "done" =>
        criticality =
            IF \E i \in 1..Len(changes) : changes[i].Criticality = Breaking THEN Breaking
            ELSE IF \E i \in 1..Len(changes) : changes[i].Criticality = Dangerous
            THEN Dangerous
            ELSE NonBreaking

\* a finished Diff in which a Dangerous Change follows a Breaking one
DiffCriticalityWitness ==
    /\ pc = "done"
    /\ \E i, j \in 1..Len(changes) :
         /\ i < j
         /\ changes[i].Criticality = Breaking
         /\ changes[j].Criticality = Dangerous
    /\ criticality = Breaking

\* C7: a method of the old document alone yields exactly one Change, Removed
\* and Breaking; a method of the new document alone yields exactly one Change,
\* Added and NonBreaking; a method both documents name is reported as neither,
\* wherever the two lists have it.
MethodAddedRemoved ==
    methodsCompared =>
        /\ \A name \in docMethodNames(oldDoc) \ docMethodNames(newDoc) :
             /\ Cardinality(changesAt(<<"methods", name>>)) = 1
             /\ \A i \in changesAt(<<"methods", name>>) :
                  /\ changes[i].Type = Removed
                  /\ changes[i].Criticality = Breaking
                  /\ changes[i].Object = Method
        /\ \A name \in docMethodNames(newDoc) \ docMethodNames(oldDoc) :
             /\ Cardinality(changesAt(<<"methods", name>>)) = 1
             /\ \A i \in changesAt(<<"methods", name>>) :
                  /\ changes[i].Type = Added
                  /\ changes[i].Criticality = NonBreaking
                  /\ changes[i].Object = Method
        /\ \A name \in docMethodNames(oldDoc) \cap docMethodNames(newDoc) :
             changesAt(<<"methods", name>>) = {}

\* a method removed, a method added, and the new list in another order
MethodAddedRemovedWitness ==
    /\ pc = "done"
    /\ docMethodNames(oldDoc) \ docMethodNames(newDoc) # {}
    /\ \E i \in 1..Len(changes) : changes[i].Type = Added /\ changes[i].Object = Method
    /\ \E i \in 1..Len(changes) : changes[i].Type = Removed /\ changes[i].Object = Method

\* the parameters of the one method, by name
paramsOf(doc) == theMethod(doc).Params
namesOf(params) == {params[i].v.cd.v.Name : i \in 1..Len(params)}

\* the Changes that report the value old replaced by the value new
changesOf(old, new) ==
    {i \in 1..Len(changes) : DeepEqual(changes[i].Old, old) /\ DeepEqual(changes[i].New, new)}

\* C2: a document compared with itself, with either value of the ShowMeta
\* option, is compared to the end and gives no Change and the overall
\* criticality NonBreaking.
SelfDiffEmpty ==
    oldDoc = newDoc =>
        /\ pc # "panic"
        /\ pc = "done" => changes = <<>> /\ criticality = NonBreaking

\* C3: for a method of both documents, an error code only the new list has
\* yields exactly one Change, Added and Dangerous, and an error code only the
\* old list has yields exactly one Change, Removed and NonBreaking.
ErrorAddedRemoved ==
    methodsCompared =>
        /\ \A code \in errorCodes(newDoc) \ errorCodes(oldDoc) :
             /\ Cardinality(changesUnder(<<"methods", "m1", "errors", ToString(code)>>)) = 1
             /\ \A i \in changesUnder(<<"methods", "m1", "errors", ToString(code)>>) :
                  changes[i].Type = Added /\ changes[i].Criticality = Dangerous
        /\ \A code \in errorCodes(oldDoc) \ errorCodes(newDoc) :
             /\ Cardinality(changesUnder(<<"methods", "m1", "errors", ToString(code)>>)) = 1
             /\ \A i \in changesUnder(<<"methods", "m1", "errors", ToString(code)>>) :
                  changes[i].Type = Removed /\ changes[i].Criticality = NonBreaking

\* C4: for a method of both documents, a parameter only the new document has
\* yields exactly one Change, Added, Breaking if the parameter is required and
\* NonBreaking if it is optional; a parameter only the old document has yields
\* exactly one Change, Removed and NonBreaking.
ParamAddedRemoved ==
    methodsCompared =>
        /\ \A name \in namesOf(paramsOf(newDoc)) \ namesOf(paramsOf(oldDoc)) :
             LET param == paramOf(paramsOf(newDoc), name)
             IN /\ Cardinality(changesOf(NIL, param)) = 1
                /\ \A i \in changesOf(NIL, param) :
                     /\ changes[i].Type = Added
                     /\ changes[i].Object = MethodParam
                     /\ changes[i].Criticality =
                          IF param.v.cd.v.Required THEN Breaking ELSE NonBreaking
        /\ \A name \in namesOf(paramsOf(oldDoc)) \ namesOf(paramsOf(newDoc)) :
             LET param == paramOf(paramsOf(oldDoc), name)
             IN /\ Cardinality(changesOf(param, NIL)) = 1
                /\ \A i \in changesOf(param, NIL) :
                     /\ changes[i].Type = Removed
                     /\ changes[i].Object = MethodParam
                     /\ changes[i].Criticality = NonBreaking

\* a required parameter added, an optional one added and one removed
ParamAddedRemovedWitness ==
    /\ pc = "done"
    /\ paramsOf(oldDoc) # <<>>
    /\ \E i \in 1..Len(changes) :
         /\ changes[i].Type = Added
         /\ changes[i].Object = MethodParam
         /\ changes[i].Criticality = Breaking
         /\ changes[i].New.v.cd.v.Required
    /\ \E i \in 1..Len(changes) :
         /\ changes[i].Type = Removed
         /\ changes[i].Object = MethodParam
         /\ changes[i].Criticality = NonBreaking

\* C5: for a parameter of both versions of a method, a required flag that goes
\* from false to true yields one Change that is Breaking and one that goes
\* from true to false yields one Change that is NonBreaking; a flag that stays
\* yields none.
RequiredFlagFlip ==
    methodsCompared =>
        \A name \in namesOf(paramsOf(oldDoc)) \cap namesOf(paramsOf(newDoc)) :
            LET o == paramOf(paramsOf(oldDoc), name).v.cd.v.Required
                n == paramOf(paramsOf(newDoc), name).v.cd.v.Required
                at == changesAt(<<"methods", "m1", "params", name, "required">>)
            IN IF o = n THEN at = {}
               ELSE /\ Cardinality(at) = 1
                    /\ \A i \in at :
                         /\ changes[i].Type = Changed
                         /\ changes[i].Old = Bool(o)
                         /\ changes[i].New = Bool(n)
                         /\ changes[i].Criticality = IF n THEN Breaking ELSE NonBreaking

\* one diff in which a flag goes from false to true and another from true to
\* false: the two Changes differ in criticality
RequiredFlagFlipWitness ==
    /\ pc = "done"
    /\ \E i, j \in 1..Len(changes) :
         /\ changes[i].Old = Bool(FALSE) /\ changes[i].New = Bool(TRUE)
         /\ changes[i].Criticality = Breaking
         /\ changes[j].Old = Bool(TRUE) /\ changes[j].New = Bool(FALSE)
         /\ changes[j].Criticality = NonBreaking

\* the declared types of the parameter and of the property of SpecTypes
paramTypeOf(doc) == paramsOf(doc)[1].v.cd.v.Schema.v.Type
propertyTypeOf(doc) == doc.Components.v.Schemas.v[1].v.Properties.v[1].v.Type

typeName(t) == IF isNil(t) THEN "" ELSE t.v.SimpleType

\* integer (int) to number (float)
widening(old, new) ==
    typeName(old) \in {"integer", "int"} /\ typeName(new) \in {"number", "float"}

\* the Changes with the tag object
changesTagged(object) == {i \in 1..Len(changes) : changes[i].Object = object}

\* C6: a change of the declared type of a method parameter or of a property
\* of a shared schema yields one Change, Breaking for every pair of different
\* types but integer to number (float), which is NonBreaking; number to
\* integer and integer to string are Breaking.
TypeChangeLevels ==
    pc = "done" =>
        /\ IF paramTypeOf(oldDoc) = paramTypeOf(newDoc)
           THEN changesTagged(MethodParamType) = {}
           ELSE /\ Cardinality(changesTagged(MethodParamType)) = 1
                /\ \A i \in changesTagged(MethodParamType) :
                     changes[i].Criticality =
                        IF widening(paramTypeOf(oldDoc), paramTypeOf(newDoc))
                        THEN NonBreaking ELSE Breaking
        /\ IF propertyTypeOf(oldDoc) = propertyTypeOf(newDoc)
           THEN changesTagged(ComponentsSchemaPropertyType) = {}
           ELSE /\ Cardinality(changesTagged(ComponentsSchemaPropertyType)) = 1
                /\ \A i \in changesTagged(ComponentsSchemaPropertyType) :
                     changes[i].Criticality =
                        IF widening(propertyTypeOf(oldDoc), propertyTypeOf(newDoc))
                        THEN NonBreaking ELSE Breaking

\* a parameter widened from integer to number and a property narrowed from
\* number to integer in one diff
TypeChangeLevelsWitness ==
    /\ pc = "done"
    /\ typeName(paramTypeOf(oldDoc)) = "integer" /\ typeName(paramTypeOf(newDoc)) = "number"
    /\ typeName(propertyTypeOf(oldDoc)) = "number"
    /\ typeName(propertyTypeOf(newDoc)) = "integer"
    /\ \E i \in changesTagged(MethodParamType) : changes[i].Criticality = NonBreaking
    /\ \E i \in changesTagged(ComponentsSchemaPropertyType) :
         changes[i].Criticality = Breaking

\* the descriptor of the result of the one method
resultOf(doc) == theMethod(doc).Result.v.cd.v

\* C8: for a method of both documents, a result whose name or type changes
\* yields a Breaking Change, and a result of which only the description
\* changes yields a Change and only NonBreaking ones.
ResultChangeLevels ==
    pc = "done" =>
        LET o == resultOf(oldDoc)
            n == resultOf(newDoc)
        IN /\ (o.Name # n.Name \/ o.Schema # n.Schema) =>
                 \E i \in 1..Len(changes) : changes[i].Criticality = Breaking
           /\ (o.Name = n.Name /\ o.Schema = n.Schema /\ o.Description # n.Description) =>
                 /\ changes # <<>>
                 /\ \A i \in 1..Len(changes) : changes[i].Criticality = NonBreaking

\* whether the shared schema of the new document is a required input
schemaIsInput == detectRequiredInput("S", newDoc, <<>>, 0)

\* C9: for a shared schema of both documents, a name added to its required
\* list yields a Change that is Breaking if the schema is reachable as a
\* required input and NonBreaking otherwise, and a name removed from the list
\* yields a NonBreaking Change.
RequiredEntryLevels ==
    pc = "done" =>
        LET at == changesUnder(<<"components", "schemas", "S", "required">>)
            o == Range(theSchema(oldDoc).Required)
            n == Range(theSchema(newDoc).Required)
        IN /\ n \ o # {} =>
                \E i \in at :
                    changes[i].Criticality =
                        IF schemaIsInput THEN Breaking ELSE NonBreaking
           /\ o \ n # {} => \E i \in at : changes[i].Criticality = NonBreaking

\* C10: for a shared schema of both documents, every property only the new
\* version has yields a NonBreaking Added Change and every property only the
\* old version has yields a Dangerous Removed Change, whatever other
\* properties the schema keeps.
PropertyAddedRemoved ==
    pc = "done" =>
        LET at == changesUnder(<<"components", "schemas", "S", "properties">>)
            o == propertyIds(theSchema(oldDoc))
            n == propertyIds(theSchema(newDoc))
        IN /\ n \ o # {} =>
                \E i \in at : changes[i].Type = Added /\ changes[i].Criticality = NonBreaking
           /\ o \ n # {} =>
                \E i \in at : changes[i].Type = Removed /\ changes[i].Criticality = Dangerous

(***************************************************************************)
(* SpecProps: one shared schema S with one property in both documents; the *)
(* documents differ in the description of the property, and the property   *)
(* has an ordinary name or the name of a keyword of the schema format.     *)
(***************************************************************************)
PropertyNames == {"f1", "type", "items", "required", "properties", "$ref"}
Descriptions == {"", "first", "second"}

DescribedProperty(name, description) ==
    Schema(name, "", "", "string", <<>>, NoProperties, description)

PropsDoc(name, description) ==
    Document("1.2.6", BaseInfo, BaseServers, <<>>,
             Components(Schemas(<<Schema("S", "", "", "object", <<>>,
                                         Properties(<<DescribedProperty(name, description)>>),
                                         "")>>)))

InitProps ==
    \E name \in PropertyNames, do \in Descriptions, dn \in Descriptions :
        Start(PropsDoc(name, do), PropsDoc(name, dn), FALSE)

SpecProps == InitProps /\ [][Next]_vars

\* the one property of the shared schema
theProperty(doc) == theSchema(doc).Properties.v[1].v

\* C11: for every property of a shared schema, whatever its name, a change of
\* its description alone yields one Change under that property, of kind
\* Changed and NonBreaking.
PropertyDescriptionChanged ==
    pc = "done" =>
        LET o == theProperty(oldDoc)
            n == theProperty(newDoc)
            at == changesUnder(<<"components", "schemas", "S", "properties", o.Id>>)
        IN (o.Description # "" /\ n.Description # "" /\ o.Description # n.Description) =>
              /\ Cardinality(at) = 1
              /\ \A i \in at :
                   changes[i].Type = Changed /\ changes[i].Criticality = NonBreaking

(***************************************************************************)
(* SpecStructure: two methods in both documents; the documents differ in   *)
(* the parameter structure of each ("" is the member left out).            *)
(***************************************************************************)
Modes == {"", Either, ByName, ByPosition}

StructureDoc(mode1, mode2) ==
    MethodsDoc(<<MethodObj("m1", mode1, <<>>, NoResult, <<>>, ""),
                 MethodObj("m2", mode2, <<>>, NoResult, <<>>, "")>>)

InitStructure ==
    \E o1 \in Modes, o2 \in Modes, n1 \in Modes, n2 \in Modes :
        Start(StructureDoc(o1, o2), StructureDoc(n1, n2), FALSE)

SpecStructure == InitStructure /\ [][Next]_vars

\* C12: for a method of both documents whose parameter structure differs,
\* the one Change is NonBreaking when the new mode is either or absent,
\* Dangerous when the old mode is either or absent and the new one is
\* by-position or by-name, and Breaking between by-position and by-name.
ParamStructureLevels ==
    methodsCompared =>
        \A k \in 1..Len(oldDoc.Methods) :
            LET o == oldDoc.Methods[k].v.obj.v.ParamStructure
                n == newDoc.Methods[k].v.obj.v.ParamStructure
                at == changesAt(<<"methods", oldDoc.Methods[k].v.obj.v.Name,
                                  "paramStructure">>)
            IN IF o = n THEN at = {}
               ELSE /\ Cardinality(at) = 1
                    /\ \A i \in at :
                         /\ changes[i].Object = MethodParamStructure
                         /\ changes[i].Criticality =
                              IF n \in {Either, ""} THEN NonBreaking
                              ELSE IF o \in {Either, ""} THEN Dangerous
                              ELSE Breaking

\* one diff with a method that goes from absent to by-name and a method that
\* goes from by-name to by-position
ParamStructureLevelsWitness ==
    /\ pc = "done"
    /\ theMethod(oldDoc).ParamStructure = "" /\ theMethod(newDoc).ParamStructure = ByName
    /\ \E i, j \in 1..Len(changes) :
         /\ changes[i].Object = MethodParamStructure
         /\ changes[i].Criticality = Dangerous
         /\ changes[j].Object = MethodParamStructure
         /\ changes[j].Criticality = Breaking
         /\ changes[j].Old.v = ByName /\ changes[j].New.v = ByPosition

(***************************************************************************)
(* SpecMeta: the documents differ in the protocol version, in the title    *)
(* and the version of the info section and in the servers; the ShowMeta    *)
(* option takes either value.                                              *)
(***************************************************************************)
ServerLists ==
    {<<>>, <<Server("main", "http://localhost/")>>, <<Server("main", "https://example.org/")>>}

MetaDocs ==
    {Document(openrpc, Info(title, version), Servers(servers), <<>>, EmptyComponents) :
        openrpc \in {"1.2.6", "1.3.2"}, title \in {"api", "service"},
        version \in {"1.0.0", "2.0.0"}, servers \in ServerLists}

InitMeta ==
    \E o \in MetaDocs, n \in MetaDocs, showMeta \in BOOLEAN : Start(o, n, showMeta)

SpecMeta == InitMeta /\ [][Next]_vars

\* C13: when the protocol version strings of the two documents differ, the
\* Diff has exactly one Change at the path openrpc, Breaking and tagged as the
\* protocol version, and the overall criticality is Breaking.
VersionChange ==
    /\ pc \notin {"openrpc", "panic"} =>
         IF oldDoc.Openrpc = newDoc.Openrpc THEN changesAt(<<"openrpc">>) = {}
         ELSE /\ Cardinality(changesAt(<<"openrpc">>)) = 1
              /\ \A i \in changesAt(<<"openrpc">>) :
                   /\ changes[i].Criticality = Breaking
                   /\ changes[i].Object = OpenRPCVersion
                   /\ changes[i].Old = Str(oldDoc.Openrpc)
                   /\ changes[i].New = Str(newDoc.Openrpc)
    /\ (pc = "done" /\ oldDoc.Openrpc # newDoc.Openrpc) => criticality = Breaking

\* a finished diff of two documents of different protocol versions, with the
\* info section compared too
VersionChangeWitness ==
    /\ pc = "done"
    /\ oldDoc.Openrpc # newDoc.Openrpc
    /\ Len(changes) > 1
    /\ changes[1].Object = OpenRPCVersion
    /\ criticality = Breaking

\* the Changes whose path starts with the segment first
changesIn(first) ==
    {i \in 1..Len(changes) : Len(pathOf(changes[i])) > 0 /\ pathOf(changes[i])[1] = first}

\* C15: with ShowMeta false no Change has a path that starts with info or
\* servers, whatever the documents hold there; with ShowMeta true every
\* difference under info or servers is reported, and NonBreaking.
MetaOnlyWhenShown ==
    pc \in {"methods", "components", "criticality", "done"} =>
        IF ~options.ShowMeta
        THEN changesIn("info") = {} /\ changesIn("servers") = {}
        ELSE /\ \A i \in changesIn("info") \cup changesIn("servers") :
                  changes[i].Criticality = NonBreaking
             /\ (oldDoc.Info.v.Title # newDoc.Info.v.Title) <=>
                  Cardinality(changesAt(<<"info", "title">>)) = 1
             /\ (oldDoc.Info.v.Version # newDoc.Info.v.Version) <=>
                  Cardinality(changesAt(<<"info", "version">>)) = 1
             /\ (oldDoc.Servers # newDoc.Servers) <=> changesIn("servers") # {}

\* the same pair of documents, different in info and servers: nothing of it
\* in the Diff without the option
MetaHiddenWitness ==
    /\ pc = "done"
    /\ ~options.ShowMeta
    /\ oldDoc.Info # newDoc.Info
    /\ oldDoc.Servers # newDoc.Servers
    /\ changes = <<>>

(***************************************************************************)
(* SpecRefs: one method in both documents; its parameter and its result    *)
(* are given inline with a schema of a primitive type, inline with a       *)
(* schema that references a shared schema, or as a bare reference to a     *)
(* shared content descriptor.                                              *)
(***************************************************************************)
RefSchemas == {TypeSchema("string"), RefSchema("A"), RefSchema("B")}

DescriptorRefs == {"#/components/contentDescriptors/X", "#/components/contentDescriptors/Y"}

RefParams ==
    {Param("p1", TRUE, s) : s \in RefSchemas}
      \cup {Struct("ContentDescriptorOrReference", Reference(t)) : t \in DescriptorRefs}

RefResults ==
    {Result("r1", s, "") : s \in RefSchemas} \cup {ResultRef(t) : t \in DescriptorRefs}

RefsDoc(param, result) == MethodsDoc(<<MethodObj("m1", "", <<param>>, result, <<>>, "")>>)

InitRefs ==
    \E po \in RefParams, pn \in RefParams, ro \in RefResults, rn \in RefResults :
        Start(RefsDoc(po, ro), RefsDoc(pn, rn), FALSE)

SpecRefs == InitRefs /\ [][Next]_vars

\* what a parameter or a result refers to: a shared descriptor, a shared
\* schema, or nothing (it is given inline)
refTarget(x) ==
    IF ~isNil(x.v.ref) THEN <<"descriptor", x.v.ref.v.Ref>>
    ELSE IF x.v.cd.v.Schema.v.Ref # "" THEN <<"schema", x.v.cd.v.Schema.v.Ref>>
    ELSE <<"inline">>

\* C14: a change of the reference target, or between an inline object and a
\* reference, of a parameter, of a result or of their schema yields one
\* Breaking Change, the only Change reported for that element.
RefChangeBreaking ==
    /\ pc # "panic"
    /\ methodsCompared =>
         /\ refTarget(paramsOf(oldDoc)[1]) # refTarget(paramsOf(newDoc)[1]) =>
              /\ Cardinality(changesUnder(<<"methods", "m1", "params">>)) = 1
              /\ \A i \in changesUnder(<<"methods", "m1", "params">>) :
                   changes[i].Criticality = Breaking
         /\ refTarget(theMethod(oldDoc).Result) # refTarget(theMethod(newDoc).Result) =>
              /\ Cardinality(changesUnder(<<"methods", "m1", "result">>)) = 1
              /\ \A i \in changesUnder(<<"methods", "m1", "result">>) :
                   changes[i].Criticality = Breaking

\* the part of it that holds: parameters given inline
RefChangeBreakingInline ==
    /\ (isNil(paramsOf(oldDoc)[1].v.ref) /\ isNil(paramsOf(newDoc)[1].v.ref)) => RefChangeBreaking

(***************************************************************************)
(* SpecInput: two shared schemas S and P in both documents. P has one      *)
(* property, named s, that references S or is a string, with a title that  *)
(* is its name, another text or absent; P lists s as required or not. The  *)
(* one parameter of the one method references S, references P or is a      *)
(* string, and is required or optional. The documents differ in the        *)
(* required list of S.                                                     *)
(***************************************************************************)
LinkTitles == {"s", "", "link to S"}

LinkProperty(title, linked) ==
    Schema("s", title, IF linked THEN schemaRef("S") ELSE "",
           IF linked THEN "" ELSE "string", <<>>, NoProperties, "")

InputDoc(paramSchema, paramRequired, link, parentRequired, required) ==
    Document("1.2.6", BaseInfo, BaseServers,
             <<MethodObj("m1", "", <<Param("p1", paramRequired, paramSchema)>>,
                         NoResult, <<>>, "")>>,
             Components(Schemas(
                 <<Schema("S", "", "", "object", required,
                          Properties(<<PropertyOf("f1", "string")>>), ""),
                   Schema("P", "", "", "object", parentRequired,
                          Properties(<<link>>), "")>>)))

InitInput ==
    \E paramSchema \in {TypeSchema("string"), RefSchema("S"), RefSchema("P")},
       paramRequired \in BOOLEAN, title \in LinkTitles, linked \in BOOLEAN,
       parentRequired \in {<<>>, <<"s">>},
       ro \in {<<>>, <<"f1">>}, rn \in {<<>>, <<"f1">>} :
        Start(InputDoc(paramSchema, paramRequired, LinkProperty(title, linked),
                       parentRequired, ro),
              InputDoc(paramSchema, paramRequired, LinkProperty(title, linked),
                       parentRequired, rn),
              FALSE)

SpecInput == InitInput /\ [][Next]_vars

\* the parent schema of a document of this family and its one property
theParent(doc) == doc.Components.v.Schemas.v[2].v
theLink(doc) == theParent(doc).Properties.v[1].v

\* a required parameter references S
referencedDirectly(doc) ==
    /\ paramsOf(doc)[1].v.cd.v.Schema.v.Ref = schemaRef("S")
    /\ paramsOf(doc)[1].v.cd.v.Required

\* the property s of P references S, P lists s as required, and a parameter
\* references P
referencedThroughParent(doc) ==
    /\ theLink(doc).Ref = schemaRef("S")
    /\ theLink(doc).Id \in Range(theParent(doc).Required)
    /\ paramsOf(doc)[1].v.cd.v.Schema.v.Ref = schemaRef("P")

\* C16: detectRequiredInput(S, doc) is true when a required parameter
\* references S, and when S is referenced by a property of P that P lists as
\* required and P is referenced by a parameter; an entry added to the
\* required list of S is then Breaking.
RequiredInputDetected ==
    (referencedDirectly(newDoc) \/ referencedThroughParent(newDoc)) =>
        /\ detectRequiredInput("S", newDoc, <<>>, 0)
        /\ (pc = "done" /\ theSchema(oldDoc).Required = <<>>
                /\ theSchema(newDoc).Required # <<>>) =>
             \E i \in changesAt(<<"components", "schemas", "S", "required", "0">>) :
                 changes[i].Criticality = Breaking

\* the part of it that holds: the direct reference, and the reference
\* through a property whose title is its name
RequiredInputDetectedByTitle ==
    (theLink(newDoc).Title = theLink(newDoc).Id) => RequiredInputDetected

(***************************************************************************)
(* SpecMatch: matchPath called on its own, on every path of up to          *)
(* MaxSegments segments and every pattern of up to MaxPattern characters.  *)
(* The pattern is a string given as its characters.                        *)
(***************************************************************************)
Segments == {"a", "aa", "*", ""}
PatternChars == {"a", "*", "."}

SeqsUpTo(S, n) == UNION {[1..k -> S] : k \in 0..n}

InitMatch ==
    /\ \E path \in SeqsUpTo(Segments, MaxSegments),
          pattern \in SeqsUpTo(PatternChars, MaxPattern) :
         call = [path |-> path, pattern |-> pattern, done |-> FALSE, result |-> FALSE]
    /\ oldDoc = MethodsDoc(<<>>)
    /\ newDoc = MethodsDoc(<<>>)
    /\ options = [ShowMeta |-> FALSE]
    /\ pc = "done"
    /\ changes = <<>>
    /\ heap = <<>>
    /\ criticality = NonBreaking

MatchPath ==
    /\ ~call.done
    /\ call' = [call EXCEPT !.done = TRUE,
                            !.result = matchPath(call.path, Split(call.pattern, "."))]
    /\ UNCHANGED <<oldDoc, newDoc, options, pc, changes, heap, criticality>>

NextMatch == MatchPath

SpecMatch == InitMatch /\ [][NextMatch]_vars

\* the characters of a string put together
RECURSIVE Text(_)
Text(s) == IF s = <<>> THEN "" ELSE Head(s) \o Text(Tail(s))

\* the places of the dots of the pattern, and its k-th segment: the
\* characters that have k - 1 dots before them
dots == {i \in 1..Len(call.pattern) : call.pattern[i] = "."}
segmentCount == Cardinality(dots) + 1
segment(k) ==
    Text(SelectSeq([i \in 1..Len(call.pattern) |->
                       IF i \notin dots /\ Cardinality({j \in dots : j < i}) = k - 1
                       THEN call.pattern[i] ELSE "."],
                   LAMBDA c : c # "."))

\* C17: matchPath(path, pattern) is true exactly when the path has at least
\* as many segments as the pattern and every segment of the pattern is the
\* wildcard or equals the segment of the path at its position.
MatchPathIff ==
    (call.done /\ call # NoCall) =>
        (call.result <=>
            /\ Len(call.path) >= segmentCount
            /\ \A k \in 1..segmentCount : segment(k) = "*" \/ segment(k) = call.path[k])

\* a path longer than the pattern matched through a wildcard and a name
MatchPathWitness ==
    /\ call.done
    /\ call.result
    /\ call.pattern = <<"*", ".", "a">>
    /\ call.path = <<"aa", "a", "*">>

(***************************************************************************)
(* SpecArrays: one method in both documents with a parameter p1 and, in    *)
(* some, a parameter p2. The schema of p1 is a string, an array without    *)
(* items, an array of strings or an array of integers.                     *)
(***************************************************************************)
ArraySchemas ==
    {TypeSchema("string"), TypeSchema("array"),
     ArrayOf(TypeSchema("array"), TypeSchema("string")),
     ArrayOf(TypeSchema("array"), TypeSchema("integer"))}

ArrayParams ==
    {<<Param("p1", r, s)>> \o rest :
        r \in BOOLEAN, s \in ArraySchemas,
        rest \in {<<>>, <<Param("p2", FALSE, TypeSchema("string"))>>}}

InitArrays == \E o \in ArrayParams, n \in ArrayParams : Start(ParamsDoc(o), ParamsDoc(n), FALSE)

SpecArrays == InitArrays /\ [][Next]_vars

\* a whole run of the comparison in one step: the context it ends with
compareDocument(old, new, ord) ==
    compareComponents(
        compareMethods(
            compareServers(
                compareInfo(
                    emitCompare(literal([ch |-> <<>>, hp |-> <<>>,
                                         s |-> [a |-> 0, n |-> 0, c |-> 0],
                                         panic |-> FALSE],
                                        <<"openrpc">>),
                                Str(old.Openrpc), Str(new.Openrpc), Breaking),
                    old.Info, new.Info, ord),
                old.Servers, new.Servers, ord),
            old.Methods, new.Methods, ord),
        old, new, ord)

\* the location and the kind of every Change of a run
reported(ch, hp) == {<<PathVal(hp, ch[i].Path), ch[i].Type>> : i \in 1..Len(ch)}

mirrored(type) ==
    IF type = Added THEN Removed ELSE IF type = Removed THEN Added ELSE type

\* C18: the diff of (B, A) reports the locations of the diff of (A, B), with
\* Added and Removed exchanged and Changed kept, the items of an array
\* schema included.
DiffMirrored ==
    pc = "done" =>
        \A ord \in Orders :
            /\ ~compareDocument(newDoc, oldDoc, ord).panic
            /\ reported(compareDocument(newDoc, oldDoc, ord).ch,
                        compareDocument(newDoc, oldDoc, ord).hp)
                 = {<<r[1], mirrored(r[2])>> : r \in reported(changes, heap)}

\* the part of it that holds: the same parameters on both sides, and items
\* in both schemas of p1 or in neither
DiffMirroredSameShape ==
    (/\ namesOf(paramsOf(oldDoc)) = namesOf(paramsOf(newDoc))
     /\ isNil(paramsOf(oldDoc)[1].v.cd.v.Schema.v.Items)
          = isNil(paramsOf(newDoc)[1].v.cd.v.Schema.v.Items)) => DiffMirrored

(***************************************************************************)
(* SpecAnomalies: every pair of documents drawn from those that leave out  *)
(* what the format lets them leave out (no components block, a method or a *)
(* parameter given as a bare reference, a parameter without a schema) and  *)
(* from the documents that differ in their parameters.                     *)
(***************************************************************************)
AnomalyDocs == AnomalousDocs \cup {ParamsDoc(l) : l \in ParamLists}

InitAnomalies == \E o \in AnomalyDocs, n \in AnomalyDocs : Start(o, n, FALSE)

SpecAnomalies == InitAnomalies /\ [][Next]_vars

\* C19: the comparison of two parsed documents runs to completion and
\* returns a Diff: no structural anomaly aborts the run.
RunsToCompletion == pc # "panic"

\* the part of it that holds: neither document is one of the anomalous ones
RunsToCompletionRegular ==
    (oldDoc \notin AnomalousDocs /\ newDoc \notin AnomalousDocs) => RunsToCompletion

\* what a Change shows, the values apart
shown(ch, hp) ==
    [i \in 1..Len(ch) |->
        <<PathVal(hp, ch[i].Path), ch[i].Type, ch[i].Object, ch[i].Criticality>>]

\* C20: two runs of the diff on the same pair of documents with the same
\* option produce the same Changes in the same order: a finished run shows
\* what any other run of the pair shows, whatever order the runtime walks
\* its maps in.
ChangesDeterministic ==
    pc = "done" =>
        \A ord \in Orders :
            shown(compareDocument(oldDoc, newDoc, ord).ch,
                  compareDocument(oldDoc, newDoc, ord).hp) = shown(changes, heap)

\* the part of it that holds: at most one parameter name in the two documents
ChangesDeterministicSingle ==
    Cardinality(namesOf(paramsOf(oldDoc)) \cup namesOf(paramsOf(newDoc))) <= 1 =>
        ChangesDeterministic

\* the Changes compareRecursive creates for the required lists of the shared
\* schema, as compare makes them
requiredCreated(ord) ==
    compareRecursive(requiredSlice(theSchema(oldDoc).Required),
                     requiredSlice(theSchema(newDoc).Required),
                     <<"components", "schemas", "S", "required">>, {}, ord)

\* C21: the severity of a Change is set once, when the Change is created, and
\* no later step changes it: a Change of the Diff has the severity compare
\* created it with.
SeverityAsCreated ==
    \A i \in changesUnder(<<"components", "schemas", "S", "required">>) :
        \E ord \in WalkOrders :
            \E k \in 1..Len(requiredCreated(ord)) :
                /\ requiredCreated(ord)[k].Path = pathOf(changes[i])
                /\ requiredCreated(ord)[k].Type = changes[i].Type
                /\ requiredCreated(ord)[k].Criticality = changes[i].Criticality

\* C21 as amended: the severity of a Change in the Diff's sequence never
\* changes; it is the severity compare created the Change with, except for
\* an entry Added to the required list of an input schema, created
\* NonBreaking by the generic walk and raised to Breaking by
\* compareJSONSchema before it is appended.
SeverityFinal ==
    /\ [](\A i \in changesUnder(<<"components", "schemas", "S", "required">>) :
            \E ord \in WalkOrders :
                \E k \in 1..Len(requiredCreated(ord)) :
                    /\ requiredCreated(ord)[k].Path = pathOf(changes[i])
                    /\ requiredCreated(ord)[k].Type = changes[i].Type
                    /\ changes[i].Criticality =
                         IF changes[i].Type = Added /\ schemaIsInput THEN Breaking
                         ELSE requiredCreated(ord)[k].Criticality)
    /\ [][/\ Len(changes') >= Len(changes)
          /\ \A i \in 1..Len(changes) :
               changes'[i].Criticality = changes[i].Criticality]_vars

\* a finished diff of an input schema: an entry added to its required list,
\* raised to Breaking, and another entry changed, left NonBreaking
SeverityFinalWitness ==
    /\ pc = "done"
    /\ schemaIsInput
    /\ \E i, j \in changesUnder(<<"components", "schemas", "S", "required">>) :
         /\ changes[i].Type = Added /\ changes[i].Criticality = Breaking
         /\ changes[j].Type = Changed /\ changes[j].Criticality = NonBreaking

\* C22: the path of a Change is the location where the divergence was
\* detected and later Changes do not alter it: every parameter added to or
\* removed from the method has a Change of that kind at its own location, so
\* two added parameters carry two different paths.
PathsKept ==
    methodsCompared =>
        /\ \A name \in namesOf(paramsOf(newDoc)) \ namesOf(paramsOf(oldDoc)) :
             \E i \in changesAt(<<"methods", "m1", "params", name>>) : changes[i].Type = Added
        /\ \A name \in namesOf(paramsOf(oldDoc)) \ namesOf(paramsOf(newDoc)) :
             \E i \in changesAt(<<"methods", "m1", "params", name>>) : changes[i].Type = Removed

\* the part of it that holds: at most one parameter name in the two documents
PathsKeptSingle ==
    Cardinality(namesOf(paramsOf(oldDoc)) \cup namesOf(paramsOf(newDoc))) <= 1 => PathsKept

\* C23: the required list of a schema is compared as a set of names: the
\* same names in another order yield no Change, and a name only the new list
\* has yields an Added Change for that name, also between lists of one length.
RequiredAsSet ==
    pc = "done" =>
        /\ Range(theSchema(oldDoc).Required) = Range(theSchema(newDoc).Required) =>
             changesUnder(<<"components", "schemas", "S", "required">>) = {}
        /\ \A name \in Range(theSchema(newDoc).Required) \ Range(theSchema(oldDoc).Required) :
             \E i \in changesUnder(<<"components", "schemas", "S", "required">>) :
                 changes[i].Type = Added /\ DeepEqual(changes[i].New, Str(name))

\* the part of it that holds: the old list is the beginning of the new one
RequiredAsSetAppended ==
    (Len(theSchema(oldDoc).Required) <= Len(theSchema(newDoc).Required)
       /\ SubSeq(theSchema(newDoc).Required, 1, Len(theSchema(oldDoc).Required))
            = theSchema(oldDoc).Required) => RequiredAsSet

\* C24: no two Changes of one Diff have the same path: every divergent
\* location is reported by exactly one Change.
NoPathTwice ==
    \A i, j \in 1..Len(changes) : i # j => pathOf(changes[i]) # pathOf(changes[j])

\* the part of it that holds: at most one parameter name in the two documents
NoPathTwiceSingle ==
    Cardinality(namesOf(paramsOf(oldDoc)) \cup namesOf(paramsOf(newDoc))) <= 1 => NoPathTwice

(***************************************************************************)
(* detectRequiredInput step by step. call.stack holds the frames of the    *)
(* recursion, the running call last: its arguments name, checked and       *)
(* level, the schema i and the property j its loops are at, and where it   *)
(* is: at its first statement ("enter"), in the loops over the schemas     *)
(* ("scan"), or returning ret to its caller ("return"). The document is     *)
(* newDoc.                                                                 *)
(***************************************************************************)
Frame(name, checked, level) ==
    [name |-> name, checked |-> checked, level |-> level, i |-> 1, j |-> 1,
     at |-> "enter", ret |-> FALSE]

top == call.stack[Len(call.stack)]

\* the stack with its last frame replaced
retop(f) == [call EXCEPT !.stack = SubSeq(@, 1, Len(@) - 1) \o <<f>>]

\* the bound never reached
levelUnbounded(level) == FALSE

\* if level > 5
levelExceeded(level) == level > MaxLevel

\* the loops over the methods and their parameters
paramMatches(doc, name, level) ==
    \E m \in 1..Len(doc.Methods) :
        \E k \in 1..Len(doc.Methods[m].v.obj.v.Params) :
            /\ schemaRef(name) = paramRef(doc.Methods[m].v.obj.v.Params[k])
            /\ (level = 0 /\ doc.Methods[m].v.obj.v.Params[k].v.cd.v.Required) \/ level > 0

\* the schema and the property the loops of the running call are at
schemaAt == docSchemas(newDoc)[top.i]
propertyAt == schemaAt.v.Properties.v[top.j]

searching == ~call.done /\ top.at = "scan"
skipped == isNil(schemaAt.v.Properties) \/ schemaAt.v.Id \in Range(top.checked)

SearchEnter ==
    /\ ~call.done
    /\ top.at = "enter"
    /\ call' = IF levelExceeded(top.level)
               THEN retop([top EXCEPT !.at = "return", !.ret = FALSE])
               ELSE IF paramMatches(newDoc, top.name, top.level)
               THEN retop([top EXCEPT !.at = "return", !.ret = TRUE])
               ELSE retop([top EXCEPT !.at = "scan"])
    /\ UNCHANGED <<oldDoc, newDoc, options, pc, changes, heap, criticality>>

\* continue, or the end of the loop over the properties of a schema
SearchNextSchema ==
    /\ searching
    /\ top.i <= Len(docSchemas(newDoc))
    /\ skipped \/ top.j > Len(schemaAt.v.Properties.v)
    /\ call' = retop([top EXCEPT !.i = @ + 1, !.j = 1])
    /\ UNCHANGED <<oldDoc, newDoc, options, pc, changes, heap, criticality>>

\* whether the property references the schema looked for and the schema that
\* holds it lists its title as required
linked ==
    /\ propertyAt.v.Ref = schemaRef(top.name)
    /\ propertyAt.v.Title \in Range(schemaAt.v.Required)

SearchNextProperty ==
    /\ searching
    /\ top.i <= Len(docSchemas(newDoc))
    /\ ~skipped
    /\ top.j <= Len(schemaAt.v.Properties.v)
    /\ ~linked
    /\ call' = retop([top EXCEPT !.j = @ + 1])
    /\ UNCHANGED <<oldDoc, newDoc, options, pc, changes, heap, criticality>>

\* detectRequiredInput(schema.Id, doc, append(checked, name), level+1)
SearchRecurse ==
    /\ searching
    /\ top.i <= Len(docSchemas(newDoc))
    /\ ~skipped
    /\ top.j <= Len(schemaAt.v.Properties.v)
    /\ linked
    /\ call' = [call EXCEPT !.stack = Append(@, Frame(schemaAt.v.Id,
                                                      Append(top.checked, top.name),
                                                      top.level + 1))]
    /\ UNCHANGED <<oldDoc, newDoc, options, pc, changes, heap, criticality>>

\* the final return false
SearchExhausted ==
    /\ searching
    /\ top.i > Len(docSchemas(newDoc))
    /\ call' = retop([top EXCEPT !.at = "return", !.ret = FALSE])
    /\ UNCHANGED <<oldDoc, newDoc, options, pc, changes, heap, criticality>>

\* the running call returns: to the caller of the search, or to the call
\* that made it, which returns true in its turn or goes on with its loop
SearchReturn ==
    /\ ~call.done
    /\ top.at = "return"
    /\ call' = IF Len(call.stack) = 1
               THEN [call EXCEPT !.done = TRUE, !.result = top.ret]
               ELSE [call EXCEPT !.stack =
                        SubSeq(@, 1, Len(@) - 2)
                          \o <<IF top.ret
                               THEN [@[Len(@) - 1] EXCEPT !.at = "return", !.ret = TRUE]
                               ELSE [@[Len(@) - 1] EXCEPT !.j = @ + 1]>>]
    /\ UNCHANGED <<oldDoc, newDoc, options, pc, changes, heap, criticality>>

NextSearch ==
    \/ SearchEnter
    \/ SearchNextSchema
    \/ SearchNextProperty
    \/ SearchRecurse
    \/ SearchExhausted
    \/ SearchReturn

(***************************************************************************)
(* SpecSearch: detectRequiredInput("S", doc, [], 0) on documents with the  *)
(* shared schemas S, P, Q and R. A schema may reference itself through a   *)
(* required property self; P, Q and R may reference the schema before them *)
(* through a property prev; S may reference P through a required property  *)
(* next. The property prev is required, optional, or optional with the     *)
(* title of a required property id. The result of the one method           *)
(* references S; its parameter, if any, references S or R.                 *)
(***************************************************************************)
SearchNames == <<"S", "P", "Q", "R">>
LinkKinds == {"required", "optional", "titled"}

RefProperty(id, title, target) ==
    Schema(id, title, schemaRef(target), "", <<>>, NoProperties, "")

SearchSchema(k, self, prev, next, kind) ==
    Schema(SearchNames[k], "", "", "object",
           (IF k \in self THEN <<"self">> ELSE <<>>)
             \o (IF k \in prev /\ kind = "required" THEN <<"prev">> ELSE <<>>)
             \o (IF k \in prev /\ kind = "titled" THEN <<"id">> ELSE <<>>)
             \o (IF k = 1 /\ next THEN <<"next">> ELSE <<>>),
           Properties(
               (IF k \in self THEN <<RefProperty("self", "self", SearchNames[k])>> ELSE <<>>)
                 \o (IF k \in prev
                     THEN <<RefProperty("prev", IF kind = "titled" THEN "id" ELSE "prev",
                                        SearchNames[k - 1])>>
                     ELSE <<>>)
                 \o (IF k \in prev /\ kind = "titled"
                     THEN <<PropertyOf("id", "string")>> ELSE <<>>)
                 \o (IF k = 1 /\ next
                     THEN <<RefProperty("next", "next", SearchNames[2])>> ELSE <<>>)),
           "")

SearchParams ==
    {<<>>, <<Param("p1", TRUE, RefSchema("S"))>>, <<Param("p1", FALSE, RefSchema("S"))>>,
     <<Param("p1", FALSE, RefSchema("R"))>>}

SearchDoc(self, prev, next, kind, params) ==
    Document("1.2.6", BaseInfo, BaseServers,
             <<MethodObj("m1", "", params, Result("r1", RefSchema("S"), ""), <<>>, "")>>,
             Components(Schemas([k \in 1..Len(SearchNames) |->
                                    SearchSchema(k, self, prev, next, kind)])))

InitSearch ==
    /\ \E self \in SUBSET (1..Len(SearchNames)), prev \in SUBSET (2..Len(SearchNames)),
          next \in BOOLEAN, kind \in LinkKinds, params \in SearchParams :
         /\ newDoc = SearchDoc(self, prev, next, kind, params)
         /\ oldDoc = SearchDoc(self, prev, next, kind, params)
    /\ call = [stack |-> <<Frame("S", <<>>, 0)>>, done |-> FALSE, result |-> FALSE]
    /\ options = [ShowMeta |-> FALSE]
    /\ pc = "done"
    /\ changes = <<>>
    /\ heap = <<>>
    /\ criticality = NonBreaking

SpecSearch == InitSearch /\ [][NextSearch]_vars

\* the same with every call running on to its return
SpecSearchFair == SpecSearch /\ WF_vars(NextSearch)

\* the step by step search returns what the recursive definition gives
SearchAgrees == call.done => (call.result <=> detectRequiredInput("S", newDoc, <<>>, 0))

\* C25: during one search no schema name occurs twice on the recursion path,
\* the schema the search started from included.
NoNameTwiceOnPath ==
    \A a, b \in 1..Len(call.stack) :
        a # b => call.stack[a].name # call.stack[b].name

\* the part of it that holds: a call never runs for a name that is in its
\* own list of checked names but as the last of them
NoNameTwiceButLast ==
    \A a \in 1..Len(call.stack) :
        \A n \in 1..(Len(call.stack[a].checked) - 1) :
            call.stack[a].checked[n] # call.stack[a].name

requiredBy(doc, name) ==
    {docSchemas(doc)[y].v.Id : y \in
        {y \in 1..Len(docSchemas(doc)) :
            /\ ~isNil(docSchemas(doc)[y].v.Properties)
            /\ \E q \in 1..Len(docSchemas(doc)[y].v.Properties.v) :
                 /\ docSchemas(doc)[y].v.Properties.v[q].v.Ref = schemaRef(name)
                 /\ docSchemas(doc)[y].v.Properties.v[q].v.Id
                      \in Range(docSchemas(doc)[y].v.Required)}}

\* the schemas reached from names by n such links or fewer
RECURSIVE reachedFrom(_, _, _)
reachedFrom(doc, names, n) ==
    IF n = 0 THEN names
    ELSE reachedFrom(doc, names \cup UNION {requiredBy(doc, x) : x \in names}, n - 1)

\* the schemas the parameters of the method reference
referencedByParams(doc) ==
    {paramsOf(doc)[k].v.cd.v.Schema.v.Ref : k \in 1..Len(paramsOf(doc))}

\* C27: the search for S is true only if a parameter references S or a schema
\* reached from S through links 'is referenced by a required property of';
\* it is false for a schema only results use, and for a schema that only
\* optional parameters reference and no schema requires.
InputOnlyIfReached ==
    call.done =>
        /\ call.result =>
             \E x \in reachedFrom(newDoc, {"S"}, Len(docSchemas(newDoc))) :
                 schemaRef(x) \in referencedByParams(newDoc)
        /\ paramsOf(newDoc) = <<>> => ~call.result
        /\ (requiredBy(newDoc, "S") = {}
              /\ \A k \in 1..Len(paramsOf(newDoc)) : ~paramsOf(newDoc)[k].v.cd.v.Required)
             => ~call.result

\* the part of it that holds: every property has its name for a title
InputOnlyIfReachedByTitle ==
    (\A y \in 1..Len(docSchemas(newDoc)) :
        \A q \in 1..Len(docSchemas(newDoc)[y].v.Properties.v) :
            docSchemas(newDoc)[y].v.Properties.v[q].v.Title
                = docSchemas(newDoc)[y].v.Properties.v[q].v.Id) => InputOnlyIfReached

(***************************************************************************)
(* SpecInline: one method in both documents whose parameter, required or   *)
(* optional, and whose result have an inline object schema. The documents  *)
(* differ in a required list of each: that of the schema itself, of its    *)
(* property inner, or of its items.                                        *)
(***************************************************************************)
Places == {"schema", "property", "items"}

ObjectSchema(id, required) == Schema(id, "", "", "object", required, NoProperties, "")

InlineSchema(place, required) ==
    IF place = "schema" THEN ObjectSchema("", required)
    ELSE IF place = "property"
    THEN Schema("", "", "", "object", <<>>,
                Properties(<<ObjectSchema("inner", required)>>), "")
    ELSE ArrayOf(TypeSchema("array"), ObjectSchema("", required))

InlineDoc(place, paramRequired, required, resultRequired) ==
    MethodsDoc(<<MethodObj("m1", "",
                           <<Param("p1", paramRequired, InlineSchema(place, required))>>,
                           Result("r1", InlineSchema(place, resultRequired), ""),
                           <<>>, "")>>)

InitInline ==
    \E place \in Places, paramRequired \in BOOLEAN,
       ro \in RequiredLists, rn \in RequiredLists,
       qo \in {<<>>, <<"f1">>}, qn \in {<<>>, <<"f1">>} :
        Start(InlineDoc(place, paramRequired, ro, qo),
              InlineDoc(place, paramRequired, rn, qn), FALSE)

SpecInline == InitInline /\ [][Next]_vars

\* the required list a schema of this family carries, wherever it is
RECURSIVE inlineRequired(_)
inlineRequired(schema) ==
    IF ~isNil(schema.v.Items) THEN inlineRequired(schema.v.Items.v.JSONSchema)
    ELSE IF ~isNil(schema.v.Properties) THEN inlineRequired(schema.v.Properties.v[1])
    ELSE schema.v.Required

paramRequiredList(doc) == inlineRequired(paramsOf(doc)[1].v.cd.v.Schema)
resultRequiredList(doc) == inlineRequired(theMethod(doc).Result.v.cd.v.Schema)

\* C28: an entry added to a required list inside the inline schema of a
\* parameter yields a Breaking Change, whether the parameter is required or
\* not, and one added inside the schema of a result a NonBreaking Change, at
\* the schema itself, in a property or in the items.
InlineRequiredLevels ==
    methodsCompared =>
        /\ \A name \in Range(paramRequiredList(newDoc)) \ Range(paramRequiredList(oldDoc)) :
             \E i \in changesUnder(<<"methods", "m1", "params">>) :
                 /\ DeepEqual(changes[i].New, Str(name))
                 /\ changes[i].Criticality = Breaking
        /\ \A name \in Range(resultRequiredList(newDoc)) \ Range(resultRequiredList(oldDoc)) :
             \E i \in changesUnder(<<"methods", "m1", "result">>) :
                 /\ DeepEqual(changes[i].New, Str(name))
                 /\ changes[i].Criticality = NonBreaking

\* the part of it that holds: the old list is the beginning of the new one
InlineRequiredLevelsAppended ==
    (Len(paramRequiredList(oldDoc)) <= Len(paramRequiredList(newDoc))
       /\ SubSeq(paramRequiredList(newDoc), 1, Len(paramRequiredList(oldDoc)))
            = paramRequiredList(oldDoc)) => InlineRequiredLevels

\* C29: a change of the type or of the reference target of the result of a
\* method is tagged METHOD_RESULT_TYPE and every other change inside the
\* result METHOD_RESULT.
ResultTags ==
    pc = "done" =>
        /\ resultOf(oldDoc).Schema.v.Type # resultOf(newDoc).Schema.v.Type =>
             \E i \in 1..Len(changes) :
                 /\ changes[i].Object = MethodResultType
                 /\ DeepEqual(changes[i].Old, Str(resultOf(oldDoc).Schema.v.Type.v.SimpleType))
        /\ resultOf(oldDoc).Description # resultOf(newDoc).Description =>
             \E i \in 1..Len(changes) :
                 /\ changes[i].Object = MethodResult
                 /\ DeepEqual(changes[i].Old, Str(resultOf(oldDoc).Description))
        /\ \A i \in 1..Len(changes) : changes[i].Object \in {MethodResultType, MethodResult}

\* the part of it that holds: every Change inside the result is tagged
\* METHOD_RESULT
ResultTagsOther ==
    \A i \in 1..Len(changes) : changes[i].Object = MethodResult

(***************************************************************************)
(* SpecDescriptors: the two documents have the same method and the same    *)
(* shared schema and differ in their shared content descriptors only: the  *)
(* block is absent or holds the descriptors X and Y, or one or none of     *)
(* them, each with a schema of type string or integer.                     *)
(***************************************************************************)
DescriptorNames == <<"X", "Y">>

DescriptorVariants(name) ==
    {Descriptor(name, FALSE, TypeSchema(t), "") : t \in {"string", "integer"}}

ContentDescriptors(list) == Slice("*ContentDescriptorMap", list)

DescriptorMaps ==
    {NilPtr("*ContentDescriptorMap")}
      \cup {ContentDescriptors(l) :
              l \in ListsOf(DescriptorNames, Len(DescriptorNames), DescriptorVariants)}

DescriptorsDoc(descriptors) ==
    Document("1.2.6", BaseInfo, BaseServers,
             <<MethodObj("m1", "", <<Param("p1", TRUE, RefSchema("S"))>>,
                         Result("r1", TypeSchema("string"), ""), <<>>, "")>>,
             ComponentsWith(Schemas(<<Schema("S", "", "", "object", <<"f1">>,
                                             Properties(<<PropertyOf("f1", "string")>>),
                                             "")>>),
                            descriptors))

InitDescriptors ==
    \E o \in DescriptorMaps, n \in DescriptorMaps, showMeta \in BOOLEAN :
        Start(DescriptorsDoc(o), DescriptorsDoc(n), showMeta)

SpecDescriptors == InitDescriptors /\ [][Next]_vars

====
